---- MODULE Spec2Model ----
(***************************************************************************)
(* NPHIES gateway: the token cache and the four exchange operations of the *)
(* Express gateway client (NPHIESClient), and the retry/backoff utility    *)
(* (retryWithBackoff) with the frontend operations that use it; the        *)
(* protected routes of the gateway with their request validation; the      *)
(* session of the frontend client (NPHIESAPIClient).                       *)
(***************************************************************************)
EXTENDS Integers, Sequences, FiniteSets, TLC

(***************************************************************************)
(* Bounds of the model                                                     *)
(***************************************************************************)
MaxOps == 3           \* gateway operations started in one behaviour
MaxTime == 2000       \* the clock (ms) stops advancing here

Reqs == {"r1", "r2"}         \* request handlers that may be in flight together
TickSteps == {1000}          \* amounts (ms) by which the clock advances
ExpiresInSet == {1, 2}       \* expires_in (s) the exchange may advertise

Operations == {"checkEligibility", "submitClaim", "submitPreAuth", "getClaimStatus"}

VARIABLES
    \* ---- Express gateway client (NPHIESClient) ----
    now,              \* Date.now(), ms
    accessToken,      \* this.accessToken: <<>> (undefined) or <<token>>
    tokenExpiryTime,  \* this.tokenExpiryTime: <<>> (undefined) or <<ms>>
    pc,               \* per request handler: where its operation stands
    op,               \* per request handler: the operation it performs
    sentToken,        \* per request: the bearer sent upstream, <<>> before the call
    outcome,          \* per request: what the operation returned or threw
    maxInFlight,      \* how many operations the surface lets run together
    \* ---- history of the gateway run (not program state) ----
    authCount,        \* POST /oauth/token calls issued so far
    authCalls,        \* per request: authentication calls of the current operation
    upstreamCalls,    \* per request: upstream operation calls of the current operation
    acquired,         \* per request: ensureAuthenticated has returned
    issued,           \* successful authentication responses, in completion order
    lastAuthFailed,   \* the most recent authentication response was a failure
    opsStarted,       \* operations started so far
    supplied,         \* per request: error.response?.data of its failed upstream call
    \* ---- protected routes of the Express gateway ----
    bearer,           \* per request: the Authorization header ("none", "invalid", "valid")
    body,             \* per request: the name of the body sent
    validated,        \* per request: Schema.parse(req.body) has run
    response,         \* per request: the responses sent, in order
    \* ---- session of the frontend client (NPHIESAPIClient) ----
    sessionToken,     \* this.token: <<>> (null) or <<token>>
    sessionUser,      \* this.user: <<>> (null) or <<user>>
    localStorage,     \* window.localStorage: per key, <<>> (absent) or <<item>>
    dispatched,       \* the events dispatched on document, in order
    pendingLogin,     \* POST /auth/login requests awaiting their response
    pendingApi,       \* API requests awaiting their response
    \* ---- history of the session (not program state) ----
    received,         \* the responses the client has received, in order
    sessionOps,       \* logins, logouts and API requests made so far
    \* ---- one retryWithBackoff session (and the frontend operation around it) ----
    caller,           \* who runs the session: "direct", or a frontend operation
    opts,             \* the merged options { ...DEFAULT_OPTIONS, ...options }
    rpc,              \* where the session stands
    attempt,          \* the loop variable
    lastError,        \* lastError: <<>> (unassigned) or <<error>>
    thrownError,      \* what the session threw: <<>> (undefined) or <<error>>
    result,           \* what the session returned: <<>> or <<value>>
    waits,            \* the delays handed to wait(), in order
    surfaced,         \* what the frontend operation threw: <<>> or <<message>>
    \* ---- history of the session (not program state) ----
    invocations,      \* calls of fn so far
    failures,         \* calls of fn that threw, so far
    \* ---- one call of a Domain Validator (NPHIESValidator) ----
    validatorCall,    \* the function called and its argument
    validatorResult,  \* <<>> before the call, then <<what it returned or threw>>
    \* ---- the token cache of a gateway, with the exchange's own clock ----
    variant,          \* "express" (fields of NPHIESClient) or "worker" (KV namespace)
    clock,            \* the time, ms
    cache,            \* <<>> (nothing stored) or <<[token, expiresAt]>>
    granted,          \* the tokens the exchange has issued: [issuedAt, expiresIn], in order
    cpc,              \* where the operation using the cache stands
    held,             \* the token the operation holds: <<>> or <<[token, fresh]>>
    \* ---- the hooks useNPHIESEligibility and useNPHIESClaims ----
    loading,          \* per hook: the loading state
    hookError,        \* per hook: the error state, <<>> (null) or <<message>>
    hookResult,       \* per hook: the result state, <<>> (null) or <<data>>
    inFlight,         \* per hook: calls started through it and not yet settled
    hookCalls         \* calls started so far

gwVars == <<now, accessToken, tokenExpiryTime, pc, op, sentToken, outcome,
            maxInFlight, authCount, authCalls, upstreamCalls, acquired, issued,
            lastAuthFailed, opsStarted, supplied>>

routeVars == <<bearer, body, validated, response>>

retryVars == <<caller, opts, rpc, attempt, lastError, thrownError, result, waits,
               surfaced, invocations, failures>>

sessionVars == <<sessionToken, sessionUser, localStorage, dispatched, pendingLogin,
                 pendingApi, received, sessionOps>>

validatorVars == <<validatorCall, validatorResult>>

cacheVars == <<variant, clock, cache, granted, cpc, held>>

hookVars == <<loading, hookError, hookResult, inFlight, hookCalls>>

vars == <<gwVars, retryVars, routeVars, sessionVars, validatorVars, cacheVars, hookVars>>

(***************************************************************************)
(* Values                                                                  *)
(***************************************************************************)
NoOutcome == [kind |-> "none", success |-> FALSE, error |-> "", code |-> "", message |-> ""]

Envelope(ok, err, code) ==
    [kind |-> "envelope", success |-> ok, error |-> err, code |-> code, message |-> ""]

Thrown(msg) ==
    [kind |-> "thrown", success |-> FALSE, error |-> "", code |-> "", message |-> msg]

AuthFailedMessage == "Failed to authenticate with NPHIES"

DefaultError(o) ==
    CASE o = "checkEligibility" -> "Eligibility check failed"
      [] o = "submitClaim" -> "Claim submission failed"
      [] o = "submitPreAuth" -> "Pre-authorization submission failed"
      [] o = "getClaimStatus" -> "Claim status check failed"

DefaultCode(o) ==
    CASE o = "checkEligibility" -> "ELIGIBILITY_ERROR"
      [] o = "submitClaim" -> "CLAIM_SUBMISSION_ERROR"
      [] o = "submitPreAuth" -> "PREAUTH_SUBMISSION_ERROR"
      [] o = "getClaimStatus" -> "CLAIM_STATUS_ERROR"

\* JavaScript truthiness of an optional number: undefined and 0 are falsy.
Truthy(x) == x # <<>> /\ x[1] # 0

(***************************************************************************)
(* Token cache                                                             *)
(***************************************************************************)
\* (mutant) the expiry instant is never looked at
NeedsAuthenticationIgnoresExpiry == ~Truthy(accessToken)

\* ensureAuthenticated's condition for calling authenticate()
NeedsAuthentication ==
    \/ ~Truthy(accessToken)
    \/ ~Truthy(tokenExpiryTime)
    \/ now >= tokenExpiryTime[1]

InFlight == {r \in Reqs : pc[r] \in {"auth", "call", "upstream"}}

GwInit ==
    /\ now = 0
    /\ accessToken = <<>>
    /\ tokenExpiryTime = <<>>
    /\ pc = [r \in Reqs |-> "idle"]
    /\ op = [r \in Reqs |-> "checkEligibility"]
    /\ sentToken = [r \in Reqs |-> <<>>]
    /\ outcome = [r \in Reqs |-> NoOutcome]
    /\ authCount = 0
    /\ authCalls = [r \in Reqs |-> 0]
    /\ upstreamCalls = [r \in Reqs |-> 0]
    /\ acquired = [r \in Reqs |-> FALSE]
    /\ issued = <<>>
    /\ lastAuthFailed = FALSE
    /\ opsStarted = 0
    /\ supplied = [r \in Reqs |-> <<>>]

\* One of the four operations is called: it runs ensureAuthenticated up to the
\* first await. With a stale cache the POST /oauth/token is issued at once.
CallOperation(r, o) ==
    /\ pc[r] = "idle"
    /\ opsStarted < MaxOps
    /\ Cardinality(InFlight) < maxInFlight
    /\ op' = [op EXCEPT ![r] = o]
    /\ opsStarted' = opsStarted + 1
    /\ IF NeedsAuthentication
         THEN /\ pc' = [pc EXCEPT ![r] = "auth"]
              /\ authCount' = authCount + 1
              /\ authCalls' = [authCalls EXCEPT ![r] = 1]
              /\ acquired' = acquired
         ELSE /\ pc' = [pc EXCEPT ![r] = "call"]
              /\ acquired' = [acquired EXCEPT ![r] = TRUE]
              /\ UNCHANGED <<authCount, authCalls>>
    /\ UNCHANGED <<validatorVars, cacheVars, hookVars, retryVars, routeVars, sessionVars, supplied>>
    /\ UNCHANGED <<now, accessToken, tokenExpiryTime, sentToken, outcome,
                   maxInFlight, upstreamCalls, issued, lastAuthFailed>>

\* (mutant) the expiry is only written when none is stored yet
AuthSuccessKeepsExpiry(r, expiresIn) ==
    /\ pc[r] = "auth"
    /\ LET token == Len(issued) + 1 IN
         /\ accessToken' = <<token>>
         /\ tokenExpiryTime' = (IF tokenExpiryTime = <<>>
                                  THEN <<now + expiresIn * 1000>>
                                  ELSE tokenExpiryTime)
         /\ issued' = Append(issued, [token |-> token, expiresIn |-> expiresIn, at |-> now])
    /\ pc' = [pc EXCEPT ![r] = "call"]
    /\ acquired' = [acquired EXCEPT ![r] = TRUE]
    /\ lastAuthFailed' = FALSE
    /\ UNCHANGED <<validatorVars, cacheVars, hookVars, retryVars, routeVars, sessionVars, supplied>>
    /\ UNCHANGED <<now, op, sentToken, outcome, maxInFlight, authCount, authCalls,
                   upstreamCalls, opsStarted>>

\* authenticate(): the token endpoint answered with success.
AuthSuccess(r, expiresIn) ==
    /\ pc[r] = "auth"
    /\ LET token == Len(issued) + 1 IN
         /\ accessToken' = <<token>>
         /\ tokenExpiryTime' = <<now + expiresIn * 1000>>
         /\ issued' = Append(issued, [token |-> token, expiresIn |-> expiresIn, at |-> now])
    /\ pc' = [pc EXCEPT ![r] = "call"]
    /\ acquired' = [acquired EXCEPT ![r] = TRUE]
    /\ lastAuthFailed' = FALSE
    /\ UNCHANGED <<validatorVars, cacheVars, hookVars, retryVars, routeVars, sessionVars, supplied>>
    /\ UNCHANGED <<now, op, sentToken, outcome, maxInFlight, authCount, authCalls,
                   upstreamCalls, opsStarted>>

\* (mutant) a failed authentication drops the cached token
AuthFailureClearsCache(r) ==
    /\ pc[r] = "auth"
    /\ pc' = [pc EXCEPT ![r] = "done"]
    /\ outcome' = [outcome EXCEPT ![r] = Thrown(AuthFailedMessage)]
    /\ lastAuthFailed' = TRUE
    /\ accessToken' = <<>>
    /\ tokenExpiryTime' = <<>>
    /\ UNCHANGED <<validatorVars, cacheVars, hookVars, retryVars, routeVars, sessionVars, supplied>>
    /\ UNCHANGED <<now, op, sentToken, maxInFlight, authCount, authCalls,
                   upstreamCalls, acquired, issued, opsStarted>>

\* authenticate(): non-success response or transport error; the catch block
\* throws, ensureAuthenticated and the operation reject with that error.
AuthFailure(r) ==
    /\ pc[r] = "auth"
    /\ pc' = [pc EXCEPT ![r] = "done"]
    /\ outcome' = [outcome EXCEPT ![r] = Thrown(AuthFailedMessage)]
    /\ lastAuthFailed' = TRUE
    /\ UNCHANGED <<validatorVars, cacheVars, hookVars, retryVars, routeVars, sessionVars, supplied>>
    /\ UNCHANGED <<now, accessToken, tokenExpiryTime, op, sentToken, maxInFlight,
                   authCount, authCalls, upstreamCalls, acquired, issued, opsStarted>>

\* (mutant) ensureAuthenticated() is not awaited
IssueCallWithoutAwait(r) ==
    /\ pc[r] \in {"auth", "call"}
    /\ sentToken' = [sentToken EXCEPT ![r] = accessToken]
    /\ upstreamCalls' = [upstreamCalls EXCEPT ![r] = @ + 1]
    /\ pc' = [pc EXCEPT ![r] = "upstream"]
    /\ UNCHANGED <<validatorVars, cacheVars, hookVars, retryVars, routeVars, sessionVars, supplied>>
    /\ UNCHANGED <<now, accessToken, tokenExpiryTime, op, outcome, maxInFlight,
                   authCount, authCalls, acquired, issued, lastAuthFailed, opsStarted>>

\* After `await this.ensureAuthenticated()`: the upstream request is built with
\* the Authorization header read from this.accessToken, and sent.
IssueCall(r) ==
    /\ pc[r] = "call"
    /\ sentToken' = [sentToken EXCEPT ![r] = accessToken]
    /\ upstreamCalls' = [upstreamCalls EXCEPT ![r] = @ + 1]
    /\ pc' = [pc EXCEPT ![r] = "upstream"]
    /\ UNCHANGED <<validatorVars, cacheVars, hookVars, retryVars, routeVars, sessionVars, supplied>>
    /\ UNCHANGED <<now, accessToken, tokenExpiryTime, op, outcome, maxInFlight,
                   authCount, authCalls, acquired, issued, lastAuthFailed, opsStarted>>

\* The exchange answered 2xx.
UpstreamSuccess(r) ==
    /\ pc[r] = "upstream"
    /\ pc' = [pc EXCEPT ![r] = "done"]
    /\ outcome' = [outcome EXCEPT ![r] = Envelope(TRUE, "", "")]
    /\ UNCHANGED <<validatorVars, cacheVars, hookVars, retryVars, routeVars, sessionVars, supplied>>
    /\ UNCHANGED <<now, accessToken, tokenExpiryTime, op, sentToken, maxInFlight,
                   authCount, authCalls, upstreamCalls, acquired, issued,
                   lastAuthFailed, opsStarted>>

\* What error.response?.data carries when the upstream call fails.
UpstreamFailures ==
    { [error |-> "", code |-> ""],                           \* no response, or no fields
      [error |-> "Patient not found", code |-> "NPH-404"],   \* business rejection
      [error |-> "Policy inactive", code |-> ""] }           \* rejection without a code

\* (mutant) the failure of the upstream call is rethrown
UpstreamFailureThrows(r, data) ==
    /\ pc[r] = "upstream"
    /\ pc' = [pc EXCEPT ![r] = "done"]
    /\ outcome' = [outcome EXCEPT ![r] =
          Thrown(IF data.error # "" THEN data.error ELSE DefaultError(op[r]))]
    /\ supplied' = [supplied EXCEPT ![r] = <<data>>]
    /\ UNCHANGED <<validatorVars, cacheVars, hookVars, retryVars, routeVars, sessionVars>>
    /\ UNCHANGED <<now, accessToken, tokenExpiryTime, op, sentToken, maxInFlight,
                   authCount, authCalls, upstreamCalls, acquired, issued,
                   lastAuthFailed, opsStarted>>

\* (mutant) a failed upstream call is sent once more before the envelope
UpstreamFailureRetries(r, data) ==
    /\ pc[r] = "upstream"
    /\ IF upstreamCalls[r] < 2
         THEN /\ pc' = [pc EXCEPT ![r] = "call"]
              /\ UNCHANGED <<outcome, supplied>>
         ELSE /\ pc' = [pc EXCEPT ![r] = "done"]
              /\ outcome' = [outcome EXCEPT ![r] =
                    Envelope(FALSE,
                             IF data.error # "" THEN data.error ELSE DefaultError(op[r]),
                             IF data.code # "" THEN data.code ELSE DefaultCode(op[r]))]
              /\ supplied' = [supplied EXCEPT ![r] = <<data>>]
    /\ UNCHANGED <<validatorVars, cacheVars, hookVars, retryVars, routeVars, sessionVars>>
    /\ UNCHANGED <<now, accessToken, tokenExpiryTime, op, sentToken, maxInFlight,
                   authCount, authCalls, upstreamCalls, acquired, issued,
                   lastAuthFailed, opsStarted>>

\* The upstream call failed (non-2xx or transport): the catch block returns
\* the error envelope.
UpstreamFailure(r, data) ==
    /\ pc[r] = "upstream"
    /\ pc' = [pc EXCEPT ![r] = "done"]
    /\ outcome' = [outcome EXCEPT ![r] =
          Envelope(FALSE,
                   IF data.error # "" THEN data.error ELSE DefaultError(op[r]),
                   IF data.code # "" THEN data.code ELSE DefaultCode(op[r]))]
    /\ supplied' = [supplied EXCEPT ![r] = <<data>>]
    /\ UNCHANGED <<validatorVars, cacheVars, hookVars, retryVars, routeVars, sessionVars>>
    /\ UNCHANGED <<now, accessToken, tokenExpiryTime, op, sentToken, maxInFlight,
                   authCount, authCalls, upstreamCalls, acquired, issued,
                   lastAuthFailed, opsStarted>>

\* The route has answered; the handler slot is free for the next request.
Respond(r) ==
    /\ pc[r] = "done"
    /\ pc' = [pc EXCEPT ![r] = "idle"]
    /\ op' = [op EXCEPT ![r] = "checkEligibility"]
    /\ sentToken' = [sentToken EXCEPT ![r] = <<>>]
    /\ outcome' = [outcome EXCEPT ![r] = NoOutcome]
    /\ authCalls' = [authCalls EXCEPT ![r] = 0]
    /\ upstreamCalls' = [upstreamCalls EXCEPT ![r] = 0]
    /\ acquired' = [acquired EXCEPT ![r] = FALSE]
    /\ supplied' = [supplied EXCEPT ![r] = <<>>]
    /\ UNCHANGED <<validatorVars, cacheVars, hookVars, retryVars, routeVars, sessionVars>>
    /\ UNCHANGED <<now, accessToken, tokenExpiryTime, maxInFlight, authCount,
                   issued, lastAuthFailed, opsStarted>>

\* Time passes.
Tick(d) ==
    /\ now + d <= MaxTime
    /\ now' = now + d
    /\ UNCHANGED <<validatorVars, cacheVars, hookVars, retryVars, routeVars, sessionVars, supplied>>
    /\ UNCHANGED <<accessToken, tokenExpiryTime, pc, op, sentToken, outcome,
                   maxInFlight, authCount, authCalls, upstreamCalls, acquired,
                   issued, lastAuthFailed, opsStarted>>

GwNext ==
    \/ \E r \in Reqs, o \in Operations : CallOperation(r, o)
    \/ \E r \in Reqs, e \in ExpiresInSet : AuthSuccess(r, e)
    \/ \E r \in Reqs : AuthFailure(r)
    \/ \E r \in Reqs : IssueCall(r)
    \/ \E r \in Reqs : UpstreamSuccess(r)
    \/ \E r \in Reqs, d \in UpstreamFailures : UpstreamFailure(r, d)
    \/ \E r \in Reqs : Respond(r)
    \/ \E d \in TickSteps : Tick(d)

(***************************************************************************)
(* Retry utility (retry-utils.ts)                                          *)
(***************************************************************************)
MaxAttemptsCap == 3   \* the largest maxAttempts a caller passes

JitterMs == 1000      \* addJitter: Math.random() * 1000

\* Strings that are searched are sequences of characters.
UpperCase == <<"A", "B", "C", "D", "E", "F", "G", "H", "I", "J", "K", "L", "M",
               "N", "O", "P", "Q", "R", "S", "T", "U", "V", "W", "X", "Y", "Z">>

LowerCase == <<"a", "b", "c", "d", "e", "f", "g", "h", "i", "j", "k", "l", "m",
               "n", "o", "p", "q", "r", "s", "t", "u", "v", "w", "x", "y", "z">>

\* String.prototype.toLowerCase
toLowerCase(str) ==
    [i \in 1..Len(str) |->
        IF \E k \in 1..26 : UpperCase[k] = str[i]
          THEN LowerCase[CHOOSE k \in 1..26 : UpperCase[k] = str[i]]
          ELSE str[i]]

\* String.prototype.includes
includes(str, sub) ==
    \E i \in 0..(Len(str) - Len(sub)) : SubSeq(str, i + 1, i + Len(sub)) = sub

\* const retryableErrors = ['ECONNREFUSED', 'ETIMEDOUT', 'ENOTFOUND', 'network']
retryableErrors ==
    { <<"E", "C", "O", "N", "N", "R", "E", "F", "U", "S", "E", "D">>,
      <<"E", "T", "I", "M", "E", "D", "O", "U", "T">>,
      <<"E", "N", "O", "T", "F", "O", "U", "N", "D">>,
      <<"n", "e", "t", "w", "o", "r", "k">> }

\* Error messages an operation may throw.
Msg_AxiosTimeout ==   \* "timeout of 30000ms exceeded"
    <<"t", "i", "m", "e", "o", "u", "t", " ", "o", "f", " ", "3", "0", "0", "0", "0",
      "m", "s", " ", "e", "x", "c", "e", "e", "d", "e", "d">>

Msg_ConnRefused ==   \* "connect ECONNREFUSED 127.0.0.1:8787"
    <<"c", "o", "n", "n", "e", "c", "t", " ", "E", "C", "O", "N", "N", "R", "E", "F",
      "U", "S", "E", "D", " ", "1", "2", "7", ".", "0", ".", "0", ".", "1", ":", "8",
      "7", "8", "7">>

Msg_DnsFailure ==   \* "getaddrinfo ENOTFOUND api"
    <<"g", "e", "t", "a", "d", "d", "r", "i", "n", "f", "o", " ", "E", "N", "O", "T",
      "F", "O", "U", "N", "D", " ", "a", "p", "i">>

Msg_NetworkError ==   \* "Network Error"
    <<"N", "e", "t", "w", "o", "r", "k", " ", "E", "r", "r", "o", "r">>

Msg_SocketTimeout ==   \* "connect ETIMEDOUT 10.0.0.1:443"
    <<"c", "o", "n", "n", "e", "c", "t", " ", "E", "T", "I", "M", "E", "D", "O", "U",
      "T", " ", "1", "0", ".", "0", ".", "0", ".", "1", ":", "4", "4", "3">>

Msg_Status500 ==   \* "Request failed with status code 500"
    <<"R", "e", "q", "u", "e", "s", "t", " ", "f", "a", "i", "l", "e", "d", " ", "w",
      "i", "t", "h", " ", "s", "t", "a", "t", "u", "s", " ", "c", "o", "d", "e", " ",
      "5", "0", "0">>

Msg_Status422 ==   \* "Request failed with status code 422"
    <<"R", "e", "q", "u", "e", "s", "t", " ", "f", "a", "i", "l", "e", "d", " ", "w",
      "i", "t", "h", " ", "s", "t", "a", "t", "u", "s", " ", "c", "o", "d", "e", " ",
      "4", "2", "2">>

Msg_LowerTimedOut ==   \* "etimedout"
    <<"e", "t", "i", "m", "e", "d", "o", "u", "t">>

Msg_MixedNotFound ==   \* "Enotfound host"
    <<"E", "n", "o", "t", "f", "o", "u", "n", "d", " ", "h", "o", "s", "t">>

Msg_UpperNetwork ==   \* "NETWORK unreachable"
    <<"N", "E", "T", "W", "O", "R", "K", " ", "u", "n", "r", "e", "a", "c", "h", "a",
      "b", "l", "e">>

Msg_NearMiss ==   \* "ECONNREFUSE"
    <<"E", "C", "O", "N", "N", "R", "E", "F", "U", "S", "E">>

Msg_RequestTimeout ==   \* "Request timeout"
    <<"R", "e", "q", "u", "e", "s", "t", " ", "t", "i", "m", "e", "o", "u", "t">>

Msg_Empty ==   \* ""
    <<>>

Msg_SplitWord ==   \* "net work"
    <<"n", "e", "t", " ", "w", "o", "r", "k">>

NoResponse == <<>>

\* Errors of an axios call, as the frontend client sees them: what happened
\* (kind), error.message, error.code, error.response (status and data.error).
AxiosErrors ==
    { [kind |-> "timeout", msg |-> Msg_AxiosTimeout, code |-> "ECONNABORTED",
       response |-> NoResponse],
      [kind |-> "refused", msg |-> Msg_ConnRefused, code |-> "ECONNREFUSED",
       response |-> NoResponse],
      [kind |-> "dns", msg |-> Msg_DnsFailure, code |-> "ENOTFOUND",
       response |-> NoResponse],
      [kind |-> "network", msg |-> Msg_NetworkError, code |-> "ERR_NETWORK",
       response |-> NoResponse],
      [kind |-> "socketTimeout", msg |-> Msg_SocketTimeout, code |-> "ETIMEDOUT",
       response |-> NoResponse],
      [kind |-> "status", msg |-> Msg_Status500, code |-> "ERR_BAD_RESPONSE",
       response |-> <<[status |-> 500, error |-> "", message |-> ""]>>],
      [kind |-> "status", msg |-> Msg_Status422, code |-> "ERR_BAD_REQUEST",
       response |-> <<[status |-> 422, error |-> "Patient not found", message |-> ""]>>] }

\* Errors of any other operation handed to retryWithBackoff.
OtherErrors ==
    { [kind |-> "other", msg |-> m, code |-> "", response |-> NoResponse] :
        m \in {Msg_LowerTimedOut, Msg_MixedNotFound, Msg_UpperNetwork, Msg_NearMiss,
               Msg_RequestTimeout, Msg_Empty, Msg_SplitWord} }

\* (mutant) the message is compared as it is, without toLowerCase()
DefaultShouldRetryCaseSensitive(error, n) ==
    \E e \in retryableErrors : includes(error.msg, toLowerCase(e))

\* DEFAULT_OPTIONS.shouldRetry
DefaultShouldRetry(error, n) ==
    LET errorMessage == toLowerCase(error.msg) IN
      \E e \in retryableErrors : includes(errorMessage, toLowerCase(e))

\* isRetryableError
isRetryableError(error) == DefaultShouldRetry(error, 1)

\* The shouldRetry predicates callers pass.
ShouldRetryPolicies == {"default", "isRetryableError", "always", "never", "firstAttemptOnly"}

ShouldRetry(policy, error, n) ==
    CASE policy = "default" -> DefaultShouldRetry(error, n)
      [] policy = "isRetryableError" -> isRetryableError(error)
      [] policy = "always" -> TRUE
      [] policy = "never" -> FALSE
      [] policy = "firstAttemptOnly" -> n < 2

DEFAULT_OPTIONS ==
    [maxAttempts |-> 3, initialDelay |-> 1000, maxDelay |-> 10000,
     backoffMultiplier |-> 2, shouldRetry |-> "default"]

\* Options callers pass (merged over DEFAULT_OPTIONS).
OptionsSet ==
    { [maxAttempts |-> m, initialDelay |-> d, maxDelay |-> x,
       backoffMultiplier |-> b, shouldRetry |-> p] :
        m \in (-1)..MaxAttemptsCap, d \in {1000, 4000}, x \in {10000, 5000},
        b \in {2, 3}, p \in ShouldRetryPolicies \ {"isRetryableError"} }

\* The options checkEligibility and submitClaim pass.
ClientRetryOptions ==
    [DEFAULT_OPTIONS EXCEPT !.maxAttempts = 3, !.shouldRetry = "isRetryableError"]

RetriedOperations == {"checkEligibility", "submitClaim"}

Callers == {"direct"} \cup RetriedOperations

RECURSIVE Pow(_, _)
Pow(b, e) == IF e <= 0 THEN 1 ELSE b * Pow(b, e - 1)

Min(a, b) == IF a <= b THEN a ELSE b

\* (mutant) the exponent is the attempt number itself
calculateDelayOffByOne(n, options) ==
    Min(options.initialDelay * Pow(options.backoffMultiplier, n), options.maxDelay)

calculateDelay(n, options) ==
    Min(options.initialDelay * Pow(options.backoffMultiplier, n - 1), options.maxDelay)

\* Math.random() * 1000, sampled
JitterSet == {0, 500, JitterMs - 1}

addJitter(delay, jitter) == delay + jitter

\* handleAPIError(error, defaultMessage)
handleAPIError(error, defaultMessage) ==
    IF error.response # NoResponse
      THEN (IF error.response[1].error # "" THEN error.response[1].error
            ELSE IF error.response[1].message # "" THEN error.response[1].message
            ELSE defaultMessage)
    ELSE IF error.code = "ECONNREFUSED"
      THEN "Cannot connect to NPHIES service. Please try again later."
    ELSE IF error.code = "ETIMEDOUT"
      THEN "Request timeout. The service is taking too long to respond."
    ELSE defaultMessage

\* The catch block of a frontend operation: what it throws when the session
\* it awaits rejects with `thrown`.
Surface(c, thrown) ==
    IF c \in RetriedOperations /\ thrown # <<>>
      THEN <<handleAPIError(thrown[1], DefaultError(c))>>
      ELSE <<>>

PossibleErrors(c) == IF c = "direct" THEN AxiosErrors \cup OtherErrors ELSE AxiosErrors

RetryInit ==
    /\ caller = "direct"
    /\ opts = DEFAULT_OPTIONS
    /\ rpc = "idle"
    /\ attempt = 0
    /\ lastError = <<>>
    /\ thrownError = <<>>
    /\ result = <<>>
    /\ waits = <<>>
    /\ surfaced = <<>>
    /\ invocations = 0
    /\ failures = 0

\* retryWithBackoff(fn, options) is called, directly or by checkEligibility /
\* submitClaim: options are merged, the loop starts at attempt 1 and, when
\* 1 <= maxAttempts, fn is invoked; otherwise the loop is skipped and
\* lastError (never assigned) is thrown.
RetryWithBackoff(c, o) ==
    /\ rpc = "idle"
    /\ c \in RetriedOperations => o = ClientRetryOptions
    /\ caller' = c
    /\ opts' = o
    /\ attempt' = 1
    /\ IF 1 <= o.maxAttempts
         THEN /\ rpc' = "running"
              /\ invocations' = 1
              /\ UNCHANGED <<thrownError, surfaced>>
         ELSE /\ rpc' = "rejected"
              /\ thrownError' = lastError
              /\ surfaced' = Surface(c, lastError)
              /\ UNCHANGED invocations
    /\ UNCHANGED <<lastError, result, waits, failures>>
    /\ UNCHANGED <<validatorVars, cacheVars, hookVars, gwVars, routeVars, sessionVars>>

\* (mutant) a success does not leave the loop
FnResolveKeepsLooping ==
    /\ rpc = "running"
    /\ result' = <<invocations>>
    /\ IF attempt < opts.maxAttempts
         THEN /\ attempt' = attempt + 1
              /\ invocations' = invocations + 1
              /\ rpc' = "running"
         ELSE /\ rpc' = "resolved"
              /\ UNCHANGED <<attempt, invocations>>
    /\ UNCHANGED <<caller, opts, lastError, thrownError, waits, surfaced, failures>>
    /\ UNCHANGED <<validatorVars, cacheVars, hookVars, gwVars, routeVars, sessionVars>>

\* fn() resolved: `return await fn()`. The value of invocation k is k.
FnResolve ==
    /\ rpc = "running"
    /\ rpc' = "resolved"
    /\ result' = <<invocations>>
    /\ UNCHANGED <<caller, opts, attempt, lastError, thrownError, waits, surfaced,
                   invocations, failures>>
    /\ UNCHANGED <<validatorVars, cacheVars, hookVars, gwVars, routeVars, sessionVars>>

\* (mutant) shouldRetry is never asked
FnRejectIgnoresShouldRetry(err, jitter) ==
    /\ rpc = "running"
    /\ err \in PossibleErrors(caller)
    /\ failures' = failures + 1
    /\ LET e == [id |-> invocations, kind |-> err.kind, msg |-> err.msg,
                 code |-> err.code, response |-> err.response] IN
         /\ lastError' = <<e>>
         /\ IF attempt = opts.maxAttempts
              THEN /\ rpc' = "rejected"
                   /\ thrownError' = <<e>>
                   /\ surfaced' = Surface(caller, <<e>>)
                   /\ waits' = waits
              ELSE /\ rpc' = "waiting"
                   /\ waits' = Append(waits, addJitter(calculateDelay(attempt, opts), jitter))
                   /\ UNCHANGED <<thrownError, surfaced>>
    /\ UNCHANGED <<caller, opts, attempt, result, invocations>>
    /\ UNCHANGED <<validatorVars, cacheVars, hookVars, gwVars, routeVars, sessionVars>>

\* (mutant) the last attempt is not told apart
FnRejectNoLastAttemptCheck(err, jitter) ==
    /\ rpc = "running"
    /\ err \in PossibleErrors(caller)
    /\ failures' = failures + 1
    /\ LET e == [id |-> invocations, kind |-> err.kind, msg |-> err.msg,
                 code |-> err.code, response |-> err.response] IN
         /\ lastError' = <<e>>
         /\ IF ~ShouldRetry(opts.shouldRetry, e, attempt)
              THEN /\ rpc' = "rejected"
                   /\ thrownError' = <<e>>
                   /\ surfaced' = Surface(caller, <<e>>)
                   /\ waits' = waits
              ELSE /\ rpc' = "waiting"
                   /\ waits' = Append(waits, addJitter(calculateDelay(attempt, opts), jitter))
                   /\ UNCHANGED <<thrownError, surfaced>>
    /\ UNCHANGED <<caller, opts, attempt, result, invocations>>
    /\ UNCHANGED <<validatorVars, cacheVars, hookVars, gwVars, routeVars, sessionVars>>

\* fn() rejected: the catch block. On the last attempt, or when shouldRetry
\* answers false, lastError is thrown (and a frontend operation's own catch
\* turns it into the error it throws); otherwise wait(delayWithJitter).
FnReject(err, jitter) ==
    /\ rpc = "running"
    /\ err \in PossibleErrors(caller)
    /\ failures' = failures + 1
    /\ LET e == [id |-> invocations, kind |-> err.kind, msg |-> err.msg,
                 code |-> err.code, response |-> err.response] IN
         /\ lastError' = <<e>>
         /\ IF attempt = opts.maxAttempts \/ ~ShouldRetry(opts.shouldRetry, e, attempt)
              THEN /\ rpc' = "rejected"
                   /\ thrownError' = <<e>>
                   /\ surfaced' = Surface(caller, <<e>>)
                   /\ waits' = waits
              ELSE /\ rpc' = "waiting"
                   /\ waits' = Append(waits, addJitter(calculateDelay(attempt, opts), jitter))
                   /\ UNCHANGED <<thrownError, surfaced>>
    /\ UNCHANGED <<caller, opts, attempt, result, invocations>>
    /\ UNCHANGED <<validatorVars, cacheVars, hookVars, gwVars, routeVars, sessionVars>>

\* wait() is over: attempt++, the loop condition is checked and fn is invoked
\* again; were the condition false, the loop would end and lastError be thrown.
WaitDone ==
    /\ rpc = "waiting"
    /\ attempt' = attempt + 1
    /\ IF attempt + 1 <= opts.maxAttempts
         THEN /\ rpc' = "running"
              /\ invocations' = invocations + 1
              /\ UNCHANGED <<thrownError, surfaced>>
         ELSE /\ rpc' = "rejected"
              /\ thrownError' = lastError
              /\ surfaced' = Surface(caller, lastError)
              /\ UNCHANGED invocations
    /\ UNCHANGED <<caller, opts, lastError, result, waits, failures>>
    /\ UNCHANGED <<validatorVars, cacheVars, hookVars, gwVars, routeVars, sessionVars>>

RetryNext ==
    \/ \E c \in Callers, o \in OptionsSet \cup {ClientRetryOptions} : RetryWithBackoff(c, o)
    \/ FnResolve
    \/ \E err \in AxiosErrors \cup OtherErrors, j \in JitterSet : FnReject(err, j)
    \/ WaitDone

(***************************************************************************)
(* Frontend operations that call the HTTP client once, without the retry   *)
(* wrapper: submitPreAuth and getClaimStatus                               *)
(***************************************************************************)
UnretriedOperations == {"submitPreAuth", "getClaimStatus"}

\* submitPreAuth / getClaimStatus is called: one this.client.post / get.
ClientCall(c) ==
    /\ rpc = "idle"
    /\ c \in UnretriedOperations
    /\ caller' = c
    /\ rpc' = "calling"
    /\ invocations' = 1
    /\ UNCHANGED <<opts, attempt, lastError, thrownError, result, waits, surfaced,
                   failures>>
    /\ UNCHANGED <<validatorVars, cacheVars, hookVars, gwVars, routeVars, sessionVars>>

\* The request resolved: `return response.data`.
ClientCallResolve ==
    /\ rpc = "calling"
    /\ rpc' = "returned"
    /\ result' = <<invocations>>
    /\ UNCHANGED <<caller, opts, attempt, lastError, thrownError, waits, surfaced,
                   invocations, failures>>
    /\ UNCHANGED <<validatorVars, cacheVars, hookVars, gwVars, routeVars, sessionVars>>

\* (mutant) a retryable failure makes the operation send the request again
ClientCallRejectRetries(err) ==
    /\ rpc = "calling"
    /\ err \in AxiosErrors
    /\ failures' = failures + 1
    /\ IF isRetryableError(err) /\ invocations < ClientRetryOptions.maxAttempts
         THEN /\ invocations' = invocations + 1
              /\ UNCHANGED <<rpc, surfaced>>
         ELSE /\ rpc' = "threw"
              /\ surfaced' = <<handleAPIError(err, DefaultError(caller))>>
              /\ UNCHANGED invocations
    /\ UNCHANGED <<caller, opts, attempt, lastError, thrownError, result, waits>>
    /\ UNCHANGED <<validatorVars, cacheVars, hookVars, gwVars, routeVars, sessionVars>>

\* The request rejected: the catch block throws handleAPIError(error, default).
ClientCallReject(err) ==
    /\ rpc = "calling"
    /\ err \in AxiosErrors
    /\ failures' = failures + 1
    /\ rpc' = "threw"
    /\ surfaced' = <<handleAPIError(err, DefaultError(caller))>>
    /\ UNCHANGED <<caller, opts, attempt, lastError, thrownError, result, waits,
                   invocations>>
    /\ UNCHANGED <<validatorVars, cacheVars, hookVars, gwVars, routeVars, sessionVars>>

\* The four frontend operations and direct uses of retryWithBackoff.
ClientNext ==
    \/ RetryNext
    \/ \E c \in UnretriedOperations : ClientCall(c)
    \/ ClientCallResolve
    \/ \E err \in AxiosErrors : ClientCallReject(err)

(***************************************************************************)
(* Request validation: the Domain Validators (NPHIESValidator) and the     *)
(* schemas the gateway parses request bodies with                          *)
(***************************************************************************)
DigitChars == <<"0", "1", "2", "3", "4", "5", "6", "7", "8", "9">>

Digits == {DigitChars[k] : k \in 1..10}

UpperLetters == {UpperCase[k] : k \in 1..26}

\* [A-Z0-9]
UpperAlnum == UpperLetters \cup Digits

\* every character of str belongs to the class
AllIn(str, class) == \A i \in 1..Len(str) : str[i] \in class

\* /^[0-9]{10}$/
validatePatientId(id) == Len(id) = 10 /\ AllIn(id, Digits)

\* /^[A-Z0-9]{8,12}$/
validateInsuranceId(id) == Len(id) \in 8..12 /\ AllIn(id, UpperAlnum)

\* /^[0-9]{7}$/
validateProviderId(id) == Len(id) = 7 /\ AllIn(id, Digits)

\* /^[A-Z0-9]{3,10}$/
validateServiceCode(code) == Len(code) \in 3..10 /\ AllIn(code, UpperAlnum)

\* ^[A-Z][0-9]{2}
Icd10Head(code) ==
    /\ Len(code) >= 3
    /\ code[1] \in UpperLetters
    /\ code[2] \in Digits
    /\ code[3] \in Digits

\* (mutant) the dot of the pattern is not escaped: any character separates
\* the decimals
validateDiagnosisCodeAnySeparator(code) ==
    /\ Icd10Head(code)
    /\ LET rest == SubSeq(code, 4, Len(code)) IN
         \/ rest = <<>>
         \/ /\ Len(rest) \in 2..3
            /\ AllIn(Tail(rest), Digits)

\* /^[A-Z][0-9]{2}(\.[0-9]{1,2})?$/
validateDiagnosisCode(code) ==
    /\ Icd10Head(code)
    /\ LET rest == SubSeq(code, 4, Len(code)) IN
         \/ rest = <<>>
         \/ /\ Len(rest) \in 2..3
            /\ rest[1] = "."
            /\ AllIn(Tail(rest), Digits)

\* The value of a decimal numeral of one or two digits.
DigitValue(c) == (CHOOSE k \in 1..10 : DigitChars[k] = c) - 1

TwoDigits(str, i) == 10 * DigitValue(str[i]) + DigitValue(str[i + 1])

\* /^[0-9]{4}-[0-9]{2}-[0-9]{2}$/
IsDateOnly(str) ==
    /\ Len(str) = 10
    /\ \A i \in {1, 2, 3, 4, 6, 7, 9, 10} : str[i] \in Digits
    /\ str[5] = "-"
    /\ str[8] = "-"

\* z.string().datetime(): YYYY-MM-DDTHH:MM:SS, an optional fraction, then Z
\* (no offset, no date-only form).
IsIsoDatetime(str) ==
    /\ Len(str) >= 20
    /\ IsDateOnly(SubSeq(str, 1, 10))
    /\ str[11] = "T"
    /\ \A i \in {12, 13, 15, 16, 18, 19} : str[i] \in Digits
    /\ str[14] = ":"
    /\ str[17] = ":"
    /\ str[Len(str)] = "Z"
    /\ LET fraction == SubSeq(str, 20, Len(str) - 1) IN
         \/ fraction = <<>>
         \/ /\ Len(fraction) >= 2
            /\ fraction[1] = "."
            /\ AllIn(Tail(fraction), Digits)

\* !isNaN(Date.parse(str)) for the ISO forms (date, or date and UTC time);
\* any other text of the request samples is not a date.
DateParses(str) ==
    LET dateOk(s) == TwoDigits(s, 6) \in 1..12 /\ TwoDigits(s, 9) \in 1..31 IN
    \/ IsDateOnly(str) /\ dateOk(str)
    \/ /\ IsIsoDatetime(str)
       /\ dateOk(str)
       /\ TwoDigits(str, 12) \in 0..24
       /\ TwoDigits(str, 15) \in 0..59
       /\ TwoDigits(str, 18) \in 0..59

validClaimTypes == {"inpatient", "outpatient", "pharmacy", "dental"}

\* One pushed error: its text and, for the forEach loops, the index and code.
ValidationError(text, index, value) == [text |-> text, index |-> index, value |-> value]

ErrorIf(cond, text, index, value) ==
    IF cond THEN <<ValidationError(text, index, value)>> ELSE <<>>

\* (mutant) the eligibility checks stop at the first failure
validateEligibilityRequestFailFast(request) ==
    LET errors ==
          IF ~validatePatientId(request.patientId)
            THEN ErrorIf(TRUE, "Invalid patient ID format. Must be 10-digit Saudi National ID.", 0, <<>>)
          ELSE IF ~validateInsuranceId(request.insuranceId)
            THEN ErrorIf(TRUE, "Invalid insurance ID format.", 0, <<>>)
          ELSE IF ~validateProviderId(request.providerId)
            THEN ErrorIf(TRUE, "Invalid provider ID format. Must be 7-digit provider code.", 0, <<>>)
          ELSE ErrorIf(request.serviceDate = <<>> \/ ~DateParses(request.serviceDate),
                       "Invalid or missing service date.", 0, <<>>)
    IN [isValid |-> Len(errors) = 0, errors |-> errors]

\* NPHIESValidator.validateEligibilityRequest
validateEligibilityRequest(request) ==
    LET errors ==
          ErrorIf(~validatePatientId(request.patientId),
                  "Invalid patient ID format. Must be 10-digit Saudi National ID.", 0, <<>>)
          \o ErrorIf(~validateInsuranceId(request.insuranceId),
                     "Invalid insurance ID format.", 0, <<>>)
          \o ErrorIf(~validateProviderId(request.providerId),
                     "Invalid provider ID format. Must be 7-digit provider code.", 0, <<>>)
          \o ErrorIf(request.serviceDate = <<>> \/ ~DateParses(request.serviceDate),
                     "Invalid or missing service date.", 0, <<>>)
    IN [isValid |-> Len(errors) = 0, errors |-> errors]

\* request.services.forEach(...)
RECURSIVE ServiceErrors(_, _)
ServiceErrors(services, i) ==
    IF i > Len(services) THEN <<>>
    ELSE ErrorIf(~validateServiceCode(services[i].code),
                 "Invalid service code at index", i - 1, services[i].code)
         \o ErrorIf(services[i].quantity <= 0, "Invalid quantity at service index", i - 1, <<>>)
         \o ErrorIf(services[i].unitPrice <= 0, "Invalid unit price at service index", i - 1, <<>>)
         \o ServiceErrors(services, i + 1)

\* request.diagnosis.forEach(...)
RECURSIVE DiagnosisErrors(_, _)
DiagnosisErrors(diagnosis, i) ==
    IF i > Len(diagnosis) THEN <<>>
    ELSE ErrorIf(~validateDiagnosisCode(diagnosis[i].code),
                 "Invalid diagnosis code at index", i - 1, diagnosis[i].code)
         \o DiagnosisErrors(diagnosis, i + 1)

\* (mutant) the loop over the services stops at the first entry that fails
validateClaimRequestFailFast(request) ==
    LET serviceErrors == ServiceErrors(request.services, 1)
        errors ==
          ErrorIf(~validatePatientId(request.patientInfo.id),
                  "Invalid patient ID in patient info.", 0, <<>>)
          \o ErrorIf(~validateProviderId(request.providerInfo.id),
                     "Invalid provider ID in provider info.", 0, <<>>)
          \o (IF serviceErrors = <<>> THEN <<>> ELSE <<serviceErrors[1]>>)
          \o DiagnosisErrors(request.diagnosis, 1)
          \o ErrorIf(request.claimType \notin validClaimTypes,
                     "Invalid claim type. Must be one of: inpatient, outpatient, pharmacy, dental",
                     0, <<>>)
    IN [isValid |-> Len(errors) = 0, errors |-> errors]

\* NPHIESValidator.validateClaimRequest
validateClaimRequest(request) ==
    LET errors ==
          ErrorIf(~validatePatientId(request.patientInfo.id),
                  "Invalid patient ID in patient info.", 0, <<>>)
          \o ErrorIf(~validateProviderId(request.providerInfo.id),
                     "Invalid provider ID in provider info.", 0, <<>>)
          \o ServiceErrors(request.services, 1)
          \o DiagnosisErrors(request.diagnosis, 1)
          \o ErrorIf(request.claimType \notin validClaimTypes,
                     "Invalid claim type. Must be one of: inpatient, outpatient, pharmacy, dental",
                     0, <<>>)
    IN [isValid |-> Len(errors) = 0, errors |-> errors]

\* The diagnosis pattern as the gateways write it,
\* /^[A-Z][0-9]{2}(\\.[0-9]{1,2})?$/: in a regex literal \\ is a backslash and
\* the dot after it is any character.
SchemaDiagnosisCode(code) ==
    /\ Icd10Head(code)
    /\ LET rest == SubSeq(code, 4, Len(code)) IN
         \/ rest = <<>>
         \/ /\ Len(rest) \in 3..4
            /\ rest[1] = "\\"
            /\ AllIn(SubSeq(rest, 3, Len(rest)), Digits)

\* EligibilityRequestSchema of the Express gateway
ExpressEligibilityRequestSchema(value) ==
    /\ Len(value.patientId) = 10
    /\ Len(value.insuranceId) \in 8..12
    /\ Len(value.providerId) = 7
    /\ IsIsoDatetime(value.serviceDate)

\* EligibilityRequestSchema of the Worker gateway
WorkerEligibilityRequestSchema(value) ==
    /\ Len(value.patientId) = 10
    /\ Len(value.insuranceId) \in 8..12
    /\ Len(value.providerId) = 7
    /\ IsDateOnly(value.serviceDate)
    /\ DateParses(value.serviceDate)

\* ClaimRequestSchema (the same text in both gateways)
ClaimRequestSchema(value) ==
    /\ Len(value.patientInfo.id) = 10
    /\ value.patientInfo.name # ""
    /\ value.patientInfo.gender \in {"M", "F"}
    /\ Len(value.providerInfo.id) = 7
    /\ value.providerInfo.name # ""
    /\ value.providerInfo.license # ""
    /\ \A i \in 1..Len(value.services) :
          /\ Len(value.services[i].code) \in 3..8
          /\ value.services[i].description # ""
          /\ value.services[i].quantity > 0
          /\ value.services[i].unitPrice > 0
    /\ \A i \in 1..Len(value.diagnosis) :
          /\ SchemaDiagnosisCode(value.diagnosis[i].code)
          /\ value.diagnosis[i].description # ""
          /\ value.diagnosis[i].type \in {"primary", "secondary"}
    /\ value.totalAmount > 0
    /\ value.claimType \in validClaimTypes

\* PreAuthRequestSchema (the same text in both gateways)
PreAuthRequestSchema(value) ==
    /\ Len(value.patientId) = 10
    /\ Len(value.providerId) = 7
    /\ value.serviceRequested # ""
    /\ Len(value.medicalJustification) >= 10
    /\ value.estimatedCost > 0
    /\ value.urgency \in {"routine", "urgent", "emergency"}

(***************************************************************************)
(* Request bodies the callers send                                         *)
(***************************************************************************)
EligibilityBody(pid, iid, prid, date) ==
    [patientId |-> pid, insuranceId |-> iid, providerId |-> prid, serviceDate |-> date]

ClaimBody(pid, prid, serviceCode, quantity, unitPrice, diagnosisCode, claimType) ==
    [patientInfo |-> [id |-> pid, name |-> "Ahmed Al-Saud", dob |-> "1990-01-01",
                      gender |-> "M"],
     providerInfo |-> [id |-> prid, name |-> "King Faisal Medical Center",
                       license |-> "LIC123456"],
     services |-> << [code |-> serviceCode, description |-> "Office visit",
                      quantity |-> quantity, unitPrice |-> unitPrice,
                      date |-> "2024-01-15"] >>,
     diagnosis |-> << [code |-> diagnosisCode, description |-> "Typhoid fever",
                       type |-> "primary"] >>,
     totalAmount |-> 200,
     claimType |-> claimType]

PreAuthBody(pid, prid, justification) ==
    [patientId |-> pid, providerId |-> prid, serviceRequested |-> "MRI",
     medicalJustification |-> justification, estimatedCost |-> 1500,
     urgency |-> "routine"]

\* The texts the request samples are made of, as sequences of characters.
Str ==
    [patientId |-> <<"1", "2", "3", "4", "5", "6", "7", "8", "9", "0">>,
     providerId |-> <<"1", "2", "3", "4", "5", "6", "7">>,
     insuranceId |-> <<"A", "B", "C", "1", "2", "3", "4", "5", "6">>,
     dateOnly |-> <<"2", "0", "2", "4", "-", "0", "1", "-", "1", "5">>,
     datetime |-> <<"2", "0", "2", "4", "-", "0", "1", "-", "1", "5", "T", "1", "0", ":", "3", "0", ":", "0", "0", "Z">>,
     tenLetters |-> <<"a", "b", "c", "d", "e", "f", "g", "h", "i", "j">>,
     sevenLetters |-> <<"a", "b", "c", "d", "e", "f", "g">>,
     lowerInsurance |-> <<"a", "b", "c", "-", "1", "2", "3", "4">>,
     shortId |-> <<"1", "2", "3">>,
     tooShort |-> <<"A", "B">>,
     eightDigits |-> <<"1", "2", "3", "4", "5", "6", "7", "8">>,
     notADate |-> <<"i", "n", "v", "a", "l", "i", "d", "-", "d", "a", "t", "e">>,
     serviceCode |-> <<"C", "P", "T", "9", "9", "2", "1", "3">>,
     serviceCode9 |-> <<"C", "P", "T", "9", "9", "2", "1", "3", "0">>,
     lowerCode |-> <<"c", "p", "t", "-", "1">>,
     diagnosis |-> <<"A", "0", "1">>,
     diagnosisDecimal |-> <<"A", "0", "1", ".", "1">>,
     word |-> <<"I", "N", "V", "A", "L", "I", "D">>,
     justification |-> <<"P", "e", "r", "s", "i", "s", "t", "e", "n", "t", " ", "h", "e", "a", "d", "a", "c", "h", "e", "s">>,
     shortText |-> <<"P", "a", "i", "n">>]

EligibilityBodies == {"E_dateOnly", "E_datetime", "E_letters", "E_invalid"}

ClaimBodies == {"K_plain", "K_decimal", "K_longCode", "K_letters", "K_invalid"}

PreAuthBodies == {"P_valid", "P_short"}

NoBody == "none"

\* The body a name stands for.
Body(id) ==
    CASE id = "E_dateOnly" ->
           EligibilityBody(Str.patientId, Str.insuranceId, Str.providerId, Str.dateOnly)
      [] id = "E_datetime" ->
           EligibilityBody(Str.patientId, Str.insuranceId, Str.providerId, Str.datetime)
      [] id = "E_letters" ->
           EligibilityBody(Str.tenLetters, Str.lowerInsurance, Str.sevenLetters, Str.datetime)
      [] id = "E_invalid" ->
           EligibilityBody(Str.shortId, Str.tooShort, Str.eightDigits, Str.notADate)
      [] id = "K_plain" ->
           ClaimBody(Str.patientId, Str.providerId, Str.serviceCode, 1, 200,
                     Str.diagnosis, "outpatient")
      [] id = "K_decimal" ->
           ClaimBody(Str.patientId, Str.providerId, Str.serviceCode, 1, 200,
                     Str.diagnosisDecimal, "outpatient")
      [] id = "K_longCode" ->
           ClaimBody(Str.patientId, Str.providerId, Str.serviceCode9, 1, 200,
                     Str.diagnosis, "outpatient")
      [] id = "K_letters" ->
           ClaimBody(Str.tenLetters, Str.sevenLetters, Str.lowerCode, 1, 200,
                     Str.diagnosis, "outpatient")
      [] id = "K_invalid" ->
           ClaimBody(Str.shortId, Str.eightDigits, Str.word, 0, -100,
                     Str.word, "invalid")
      [] id = "P_valid" -> PreAuthBody(Str.patientId, Str.providerId, Str.justification)
      [] id = "P_short" -> PreAuthBody(Str.patientId, Str.providerId, Str.shortText)

\* The bodies a caller may send with each operation's route.
BodiesOf(o) ==
    CASE o = "checkEligibility" -> EligibilityBodies
      [] o = "submitClaim" -> ClaimBodies
      [] o = "submitPreAuth" -> PreAuthBodies
      [] o = "getClaimStatus" -> {NoBody}

\* Schema.parse(req.body) of the Express route of operation o succeeds.
ExpressSchemaAccepts(o, id) ==
    CASE o = "checkEligibility" -> ExpressEligibilityRequestSchema(Body(id))
      [] o = "submitClaim" -> ClaimRequestSchema(Body(id))
      [] o = "submitPreAuth" -> PreAuthRequestSchema(Body(id))
      [] o = "getClaimStatus" -> TRUE

\* safeParse(value) of the Worker route of operation o succeeds.
WorkerSchemaAccepts(o, id) ==
    CASE o = "checkEligibility" -> WorkerEligibilityRequestSchema(Body(id))
      [] o = "submitClaim" -> ClaimRequestSchema(Body(id))
      [] o = "submitPreAuth" -> PreAuthRequestSchema(Body(id))
      [] o = "getClaimStatus" -> TRUE

\* The operations that have a Domain Validator.
ValidatedOperations == {"checkEligibility", "submitClaim"}

\* The Domain Validator of operation o reports isValid.
ValidatorAccepts(o, id) ==
    CASE o = "checkEligibility" -> validateEligibilityRequest(Body(id)).isValid
      [] o = "submitClaim" -> validateClaimRequest(Body(id)).isValid

(***************************************************************************)
(* Protected routes of the Express gateway: authenticateToken, the body    *)
(* schema, the gateway operation, the response                             *)
(***************************************************************************)
Bearers == {"none", "invalid", "valid"}

\* res.status(status).json({ error, message }) or res.json(envelope)
HttpResponse(status, error, message, envelope) ==
    [status |-> status, error |-> error, message |-> message, envelope |-> envelope]

\* authenticateToken: the response it sends, or <<>> when it calls next().
authenticateToken(b) ==
    IF b = "none" THEN <<HttpResponse(401, "Access token required", "", NoOutcome)>>
    ELSE IF b = "invalid" THEN <<HttpResponse(403, "Invalid or expired token", "", NoOutcome)>>
    ELSE <<>>

\* The catch block of a route for a ZodError.
ValidationFailed == HttpResponse(400, "Validation failed", "", NoOutcome)

RouteInit ==
    /\ bearer = [r \in Reqs |-> "none"]
    /\ body = [r \in Reqs |-> NoBody]
    /\ validated = [r \in Reqs |-> FALSE]
    /\ response = [r \in Reqs |-> <<>>]

\* (mutant) the gateway operation is started before the body is parsed
RouteRequestAuthenticatesFirst(r, o, b, d) ==
    /\ pc[r] = "idle"
    /\ opsStarted < MaxOps
    /\ Cardinality(InFlight) < maxInFlight
    /\ d \in BodiesOf(o)
    /\ opsStarted' = opsStarted + 1
    /\ op' = [op EXCEPT ![r] = o]
    /\ bearer' = [bearer EXCEPT ![r] = b]
    /\ body' = [body EXCEPT ![r] = d]
    /\ IF authenticateToken(b) # <<>>
         THEN /\ response' = [response EXCEPT ![r] = authenticateToken(b)]
              /\ pc' = [pc EXCEPT ![r] = "responded"]
              /\ UNCHANGED <<validated, authCount, authCalls, acquired>>
         ELSE IF o # "getClaimStatus" /\ ~ExpressSchemaAccepts(o, d)
           THEN /\ validated' = [validated EXCEPT ![r] = TRUE]
                /\ response' = [response EXCEPT ![r] = <<ValidationFailed>>]
                /\ pc' = [pc EXCEPT ![r] = "responded"]
                /\ authCount' = authCount + 1
                /\ authCalls' = [authCalls EXCEPT ![r] = 1]
                /\ UNCHANGED acquired
           ELSE /\ validated' = [validated EXCEPT ![r] = (o # "getClaimStatus")]
                /\ UNCHANGED response
                /\ IF NeedsAuthentication
                     THEN /\ pc' = [pc EXCEPT ![r] = "auth"]
                          /\ authCount' = authCount + 1
                          /\ authCalls' = [authCalls EXCEPT ![r] = 1]
                          /\ acquired' = acquired
                     ELSE /\ pc' = [pc EXCEPT ![r] = "call"]
                          /\ acquired' = [acquired EXCEPT ![r] = TRUE]
                          /\ UNCHANGED <<authCount, authCalls>>
    /\ UNCHANGED <<validatorVars, cacheVars, hookVars, retryVars, sessionVars>>
    /\ UNCHANGED <<now, accessToken, tokenExpiryTime, sentToken, outcome,
                   maxInFlight, upstreamCalls, issued, lastAuthFailed, supplied>>

\* (mutant) authenticateToken runs after the body has been parsed
RouteRequestParsesFirst(r, o, b, d) ==
    /\ pc[r] = "idle"
    /\ opsStarted < MaxOps
    /\ Cardinality(InFlight) < maxInFlight
    /\ d \in BodiesOf(o)
    /\ opsStarted' = opsStarted + 1
    /\ op' = [op EXCEPT ![r] = o]
    /\ bearer' = [bearer EXCEPT ![r] = b]
    /\ body' = [body EXCEPT ![r] = d]
    /\ IF o # "getClaimStatus" /\ ~ExpressSchemaAccepts(o, d)
         THEN /\ validated' = [validated EXCEPT ![r] = TRUE]
              /\ response' = [response EXCEPT ![r] = <<ValidationFailed>>]
              /\ pc' = [pc EXCEPT ![r] = "responded"]
              /\ UNCHANGED <<authCount, authCalls, acquired>>
         ELSE IF authenticateToken(b) # <<>>
           THEN /\ validated' = [validated EXCEPT ![r] = (o # "getClaimStatus")]
                /\ response' = [response EXCEPT ![r] = authenticateToken(b)]
                /\ pc' = [pc EXCEPT ![r] = "responded"]
                /\ UNCHANGED <<authCount, authCalls, acquired>>
           ELSE /\ validated' = [validated EXCEPT ![r] = (o # "getClaimStatus")]
                /\ UNCHANGED response
                /\ IF NeedsAuthentication
                     THEN /\ pc' = [pc EXCEPT ![r] = "auth"]
                          /\ authCount' = authCount + 1
                          /\ authCalls' = [authCalls EXCEPT ![r] = 1]
                          /\ acquired' = acquired
                     ELSE /\ pc' = [pc EXCEPT ![r] = "call"]
                          /\ acquired' = [acquired EXCEPT ![r] = TRUE]
                          /\ UNCHANGED <<authCount, authCalls>>
    /\ UNCHANGED <<validatorVars, cacheVars, hookVars, retryVars, sessionVars>>
    /\ UNCHANGED <<now, accessToken, tokenExpiryTime, sentToken, outcome,
                   maxInFlight, upstreamCalls, issued, lastAuthFailed, supplied>>

\* A request arrives at the route of operation o with Authorization b and
\* body d. authenticateToken answers 401 / 403 or calls next(); the handler
\* parses the body with the route's schema (the status route has none) and
\* answers 400 on a ZodError; otherwise it calls the gateway operation, which
\* runs up to its first await as in CallOperation.
RouteRequest(r, o, b, d) ==
    /\ pc[r] = "idle"
    /\ opsStarted < MaxOps
    /\ Cardinality(InFlight) < maxInFlight
    /\ d \in BodiesOf(o)
    /\ opsStarted' = opsStarted + 1
    /\ op' = [op EXCEPT ![r] = o]
    /\ bearer' = [bearer EXCEPT ![r] = b]
    /\ body' = [body EXCEPT ![r] = d]
    /\ IF authenticateToken(b) # <<>>
         THEN /\ response' = [response EXCEPT ![r] = authenticateToken(b)]
              /\ pc' = [pc EXCEPT ![r] = "responded"]
              /\ UNCHANGED <<validated, authCount, authCalls, acquired>>
         ELSE IF o # "getClaimStatus" /\ ~ExpressSchemaAccepts(o, d)
           THEN /\ validated' = [validated EXCEPT ![r] = TRUE]
                /\ response' = [response EXCEPT ![r] = <<ValidationFailed>>]
                /\ pc' = [pc EXCEPT ![r] = "responded"]
                /\ UNCHANGED <<authCount, authCalls, acquired>>
           ELSE /\ validated' = [validated EXCEPT ![r] = (o # "getClaimStatus")]
                /\ UNCHANGED response
                /\ IF NeedsAuthentication
                     THEN /\ pc' = [pc EXCEPT ![r] = "auth"]
                          /\ authCount' = authCount + 1
                          /\ authCalls' = [authCalls EXCEPT ![r] = 1]
                          /\ acquired' = acquired
                     ELSE /\ pc' = [pc EXCEPT ![r] = "call"]
                          /\ acquired' = [acquired EXCEPT ![r] = TRUE]
                          /\ UNCHANGED <<authCount, authCalls>>
    /\ UNCHANGED <<validatorVars, cacheVars, hookVars, retryVars, sessionVars>>
    /\ UNCHANGED <<now, accessToken, tokenExpiryTime, sentToken, outcome,
                   maxInFlight, upstreamCalls, issued, lastAuthFailed, supplied>>

\* (mutant) an error thrown by the operation is swallowed
RouteRespondSwallowsThrown(r) ==
    /\ pc[r] = "done"
    /\ pc' = [pc EXCEPT ![r] = "responded"]
    /\ response' = [response EXCEPT ![r] =
          IF outcome[r].kind = "envelope"
            THEN Append(@, HttpResponse(200, "", "", outcome[r]))
            ELSE @]
    /\ UNCHANGED <<validatorVars, cacheVars, hookVars, gwVars, retryVars, sessionVars, bearer, body, validated>>

\* The operation settled: res.json(result), or the catch block's
\* res.status(500).json({ error, message }).
RouteRespond(r) ==
    /\ pc[r] = "done"
    /\ pc' = [pc EXCEPT ![r] = "responded"]
    /\ response' = [response EXCEPT ![r] =
          IF outcome[r].kind = "envelope"
            THEN Append(@, HttpResponse(200, "", "", outcome[r]))
            ELSE Append(@, HttpResponse(500, DefaultError(op[r]), outcome[r].message,
                                        NoOutcome))]
    /\ UNCHANGED <<now, accessToken, tokenExpiryTime, op, sentToken, outcome,
                   maxInFlight, authCount, authCalls, upstreamCalls, acquired,
                   issued, lastAuthFailed, opsStarted, supplied>>
    /\ UNCHANGED <<validatorVars, cacheVars, hookVars, retryVars, sessionVars, bearer, body, validated>>

\* The exchange of request and response is over; the handler slot is free.
Close(r) ==
    /\ pc[r] = "responded"
    /\ pc' = [pc EXCEPT ![r] = "idle"]
    /\ op' = [op EXCEPT ![r] = "checkEligibility"]
    /\ sentToken' = [sentToken EXCEPT ![r] = <<>>]
    /\ outcome' = [outcome EXCEPT ![r] = NoOutcome]
    /\ authCalls' = [authCalls EXCEPT ![r] = 0]
    /\ upstreamCalls' = [upstreamCalls EXCEPT ![r] = 0]
    /\ acquired' = [acquired EXCEPT ![r] = FALSE]
    /\ supplied' = [supplied EXCEPT ![r] = <<>>]
    /\ bearer' = [bearer EXCEPT ![r] = "none"]
    /\ body' = [body EXCEPT ![r] = NoBody]
    /\ validated' = [validated EXCEPT ![r] = FALSE]
    /\ response' = [response EXCEPT ![r] = <<>>]
    /\ UNCHANGED <<validatorVars, cacheVars, hookVars, retryVars, sessionVars>>
    /\ UNCHANGED <<now, accessToken, tokenExpiryTime, maxInFlight, authCount,
                   issued, lastAuthFailed, opsStarted>>

\* What a handler does once its request is in: the exchange answers its
\* calls, the operation continues, the route responds.
HandlerStep(r) ==
    \/ \E e \in ExpiresInSet : AuthSuccess(r, e)
    \/ AuthFailure(r)
    \/ IssueCall(r)
    \/ UpstreamSuccess(r)
    \/ \E d \in UpstreamFailures : UpstreamFailure(r, d)
    \/ RouteRespond(r)

RouteNext ==
    \/ \E r \in Reqs, o \in Operations, b \in Bearers :
          \E d \in BodiesOf(o) : RouteRequest(r, o, b, d)
    \/ \E r \in Reqs : HandlerStep(r)
    \/ \E r \in Reqs : Close(r)
    \/ \E d \in TickSteps : Tick(d)

(***************************************************************************)
(* Session of the frontend client (NPHIESAPIClient): token, user, local    *)
(* storage, the auth events, the response interceptor                      *)
(***************************************************************************)
MaxSessionOps == 3    \* logins, logouts and API requests in one behaviour

StorageKeys == {"nphies_token", "nphies_user"}

LoginTokens == {"jwt1", "jwt2"}

Users == {"demo@healthcare.sa"}

\* What the item nphies_user may hold: a serialized user, or text JSON.parse rejects.
StoredUsers == Users \cup {"not json"}

\* new CustomEvent('nphies:auth-changed', { detail })
AuthChangedEvent(isAuth, u, reason) ==
    [type |-> "nphies:auth-changed", isAuthenticated |-> isAuth, user |-> u,
     reason |-> reason]

\* new CustomEvent('nphies:unauthorized')
UnauthorizedEvent ==
    [type |-> "nphies:unauthorized", isAuthenticated |-> FALSE, user |-> <<>>,
     reason |-> ""]

\* isAuthenticated(): !!this.token
isAuthenticated(t) == t # <<>> /\ t[1] # ""

\* dispatchAuthChanged(detail), run with this.token = t and this.user = u: the
\* events it dispatches. detail is <<>> (no argument) or <<reason>>.
dispatchAuthChanged(t, u, detail) ==
    <<AuthChangedEvent(isAuthenticated(t), u, IF detail = <<>> THEN "manual" ELSE detail[1])>>
    \o (IF detail = <<"unauthorized">> THEN <<UnauthorizedEvent>> ELSE <<>>)

\* loadToken(), at construction: the token and user read from storage, and
\* the storage it leaves (an unparseable user item is removed).
loadToken(storage) ==
    [token |-> IF storage["nphies_token"] # <<>> /\ storage["nphies_token"][1] # ""
                 THEN storage["nphies_token"] ELSE <<>>,
     user |-> IF storage["nphies_user"] # <<>> /\ storage["nphies_user"][1] \in Users
                THEN storage["nphies_user"] ELSE <<>>,
     storage |-> IF storage["nphies_user"] # <<>> /\ storage["nphies_user"][1] \notin Users
                   THEN [storage EXCEPT !["nphies_user"] = <<>>]
                   ELSE storage]

\* What the browser's storage may hold when the client is constructed.
StorageStates ==
    { [k \in StorageKeys |-> IF k = "nphies_token" THEN t ELSE u] :
        t \in {<<>>} \cup {<<x>> : x \in LoginTokens},
        u \in {<<>>} \cup {<<x>> : x \in StoredUsers} }

EmptyStorage == [k \in StorageKeys |-> <<>>]

\* The client constructed over an empty storage; nothing sent yet.
SessionInit ==
    /\ sessionToken = <<>>
    /\ sessionUser = <<>>
    /\ localStorage = EmptyStorage
    /\ dispatched = <<>>
    /\ pendingLogin = 0
    /\ pendingApi = 0
    /\ received = <<>>
    /\ sessionOps = 0

\* The client constructed over whatever the storage holds.
SessionConstructed ==
    /\ \E storage \in StorageStates :
          /\ sessionToken = loadToken(storage).token
          /\ sessionUser = loadToken(storage).user
          /\ localStorage = loadToken(storage).storage
    /\ dispatched = <<>>
    /\ pendingLogin = 0
    /\ pendingApi = 0
    /\ received = <<>>
    /\ sessionOps = 0

\* (mutant) logout leaves the stored credentials in place
LogoutKeepsStorage(reason) ==
    /\ sessionToken' = <<>>
    /\ sessionUser' = <<>>
    /\ localStorage' = localStorage
    /\ dispatched' = dispatched \o dispatchAuthChanged(<<>>, <<>>, <<reason>>)

\* logout({ reason }): token and user are nulled, both items removed from
\* storage, the events dispatched.
Logout(reason) ==
    /\ sessionToken' = <<>>
    /\ sessionUser' = <<>>
    /\ localStorage' = EmptyStorage
    /\ dispatched' = dispatched \o dispatchAuthChanged(<<>>, <<>>, <<reason>>)

\* useNPHIESAuth().logout: nphiesAPI.logout({ reason: 'manual' })
ManualLogout ==
    /\ sessionOps < MaxSessionOps
    /\ sessionOps' = sessionOps + 1
    /\ Logout("manual")
    /\ UNCHANGED <<pendingLogin, pendingApi, received>>
    /\ UNCHANGED <<validatorVars, cacheVars, hookVars, gwVars, retryVars, routeVars>>

\* login(): the POST /auth/login is sent.
SendLogin ==
    /\ sessionOps < MaxSessionOps
    /\ sessionOps' = sessionOps + 1
    /\ pendingLogin' = pendingLogin + 1
    /\ UNCHANGED <<sessionToken, sessionUser, localStorage, dispatched, pendingApi,
                   received>>
    /\ UNCHANGED <<validatorVars, cacheVars, hookVars, gwVars, retryVars, routeVars>>

LoginResponseKinds == {"success", "refused", "status401", "status500", "noResponse"}

\* The response to a login arrives. 401 runs the response interceptor
\* (logout, reason 'unauthorized') before login's catch block throws; a body
\* with success runs saveToken then saveUser, each dispatching auth-changed.
LoginResponse(kind, t, u) ==
    /\ pendingLogin > 0
    /\ pendingLogin' = pendingLogin - 1
    /\ received' = Append(received, [call |-> "login", kind |-> kind])
    /\ CASE kind = "success" ->
              /\ sessionToken' = <<t>>
              /\ sessionUser' = <<u>>
              /\ localStorage' = [k \in StorageKeys |->
                                    IF k = "nphies_token" THEN <<t>> ELSE <<u>>]
              /\ dispatched' = dispatched
                                 \o dispatchAuthChanged(<<t>>, sessionUser, <<>>)
                                 \o dispatchAuthChanged(<<t>>, <<u>>, <<>>)
         [] kind = "status401" -> Logout("unauthorized")
         [] OTHER -> UNCHANGED <<sessionToken, sessionUser, localStorage, dispatched>>
    /\ UNCHANGED <<pendingApi, sessionOps>>
    /\ UNCHANGED <<validatorVars, cacheVars, hookVars, gwVars, retryVars, routeVars>>

\* One of the four operations sends its request (a retry is one more request).
SendApi ==
    /\ sessionOps < MaxSessionOps
    /\ sessionOps' = sessionOps + 1
    /\ pendingApi' = pendingApi + 1
    /\ UNCHANGED <<sessionToken, sessionUser, localStorage, dispatched, pendingLogin,
                   received>>
    /\ UNCHANGED <<validatorVars, cacheVars, hookVars, gwVars, retryVars, routeVars>>

\* success: 2xx with a success:true envelope; businessFailure: 2xx with a
\* success:false envelope; the others are rejections of the request.
ApiResponseKinds ==
    {"success", "businessFailure", "status400", "status401", "status403", "status500",
     "noResponse"}

\* (mutant) the interceptor logs out on every failure, business failures included
ApiResponseLogsOutOnFailure(kind) ==
    /\ pendingApi > 0
    /\ pendingApi' = pendingApi - 1
    /\ received' = Append(received, [call |-> "api", kind |-> kind])
    /\ IF kind # "success"
         THEN Logout("unauthorized")
         ELSE UNCHANGED <<sessionToken, sessionUser, localStorage, dispatched>>
    /\ UNCHANGED <<pendingLogin, sessionOps>>
    /\ UNCHANGED <<validatorVars, cacheVars, hookVars, gwVars, retryVars, routeVars>>

\* The response to an API request arrives: the response interceptor calls
\* logout({ reason: 'unauthorized' }) when error.response?.status === 401 and
\* does nothing to the session otherwise.
ApiResponse(kind) ==
    /\ pendingApi > 0
    /\ pendingApi' = pendingApi - 1
    /\ received' = Append(received, [call |-> "api", kind |-> kind])
    /\ IF kind = "status401"
         THEN Logout("unauthorized")
         ELSE UNCHANGED <<sessionToken, sessionUser, localStorage, dispatched>>
    /\ UNCHANGED <<pendingLogin, sessionOps>>
    /\ UNCHANGED <<validatorVars, cacheVars, hookVars, gwVars, retryVars, routeVars>>

SessionNext ==
    \/ SendLogin
    \/ \E kind \in LoginResponseKinds, t \in LoginTokens, u \in Users :
          LoginResponse(kind, t, u)
    \/ ManualLogout
    \/ SendApi
    \/ \E kind \in ApiResponseKinds : ApiResponse(kind)

(***************************************************************************)
(* One call of a Domain Validator, with the argument as JavaScript sees    *)
(* it: a property may be absent (<<>>) or present (<<value>>)              *)
(***************************************************************************)
MaxCodeLen == 6       \* the longest diagnosis code tried

\* String(x) as RegExp.prototype.test applies it: a missing value is tested
\* as the text "undefined".
String(x) ==
    IF x = <<>> THEN <<"u", "n", "d", "e", "f", "i", "n", "e", "d">> ELSE x[1]

NoCall == [fn |-> "none"]

\* The calls made of the validators: eligibility requests and claims whose
\* properties are valid, invalid or missing, and diagnosis codes (every text
\* of up to MaxCodeLen characters over a small alphabet, and the codes of
\* the validator's tests).
ValidatorCalls ==
    LET optional(S) == {<<>>} \cup {<<x>> : x \in S}
        upTo2(S) == {<<>>} \cup {<<x>> : x \in S} \cup {<<x, y>> : x \in S, y \in S}
        party(S) == optional({[id |-> i] : i \in optional(S)})
        services == { [code |-> Str.serviceCode, quantity |-> 1, unitPrice |-> 200],
                      [code |-> Str.lowerCode, quantity |-> 0, unitPrice |-> -100],
                      [code |-> Str.serviceCode9, quantity |-> 2, unitPrice |-> 0] }
        diagnoses == { [code |-> Str.diagnosisDecimal], [code |-> Str.word] }
    IN { [fn |-> "validateEligibilityRequest",
          request |-> [patientId |-> p, insuranceId |-> i, providerId |-> q, serviceDate |-> d]] :
            p \in optional({Str.patientId, Str.shortId}),
            i \in optional({Str.insuranceId, Str.tooShort}),
            q \in optional({Str.providerId, Str.eightDigits}),
            d \in optional({Str.dateOnly, Str.datetime, Str.notADate, <<>>}) }
       \cup
       { [fn |-> "validateClaimRequest",
          claim |-> [patientInfo |-> p, providerInfo |-> q, services |-> s, diagnosis |-> g,
                   claimType |-> t]] :
            p \in party({Str.patientId, Str.shortId}),
            q \in party({Str.providerId, Str.eightDigits}),
            s \in optional(upTo2(services)),
            g \in optional(upTo2(diagnoses)),
            t \in optional({"outpatient", "dental", "invalid"}) }
       \cup
       { [fn |-> "validateDiagnosisCode", code |-> <<code>>] :
            code \in UNION {[1..n -> {"A", "b", "1", "."}] : n \in 0..MaxCodeLen} }
       \cup
       { [fn |-> "validateDiagnosisCode", code |-> <<code>>] :
            code \in {<<"B", "1", "2", ".", "5">>, <<"C", "7", "8", ".", "1", "2">>,
                      <<"Z", "9", "9">>, <<"1", "2", "3">>, <<"A", "B", "1">>,
                      <<"A", "1", ".", "2", ".", "3">>, <<"a", "0", "1">>} }

\* What a call of a validator does: it returns a value, or a property of
\* undefined is read (request.patientInfo.id, request.services.forEach, ...)
\* and a TypeError is thrown.
Invoke(call) ==
    LET returned(v) == [kind |-> "returned", value |-> v]
        threw == [kind |-> "threw", value |-> "TypeError"]
    IN CASE call.fn = "validateEligibilityRequest" ->
              LET a == call.request IN
              returned(validateEligibilityRequest(
                  [patientId |-> String(a.patientId),
                   insuranceId |-> String(a.insuranceId),
                   providerId |-> String(a.providerId),
                   serviceDate |-> IF a.serviceDate = <<>> THEN <<>> ELSE a.serviceDate[1]]))
         [] call.fn = "validateClaimRequest" ->
              LET a == call.claim IN
              IF \/ a.patientInfo = <<>>
                 \/ a.providerInfo = <<>>
                 \/ a.services = <<>>
                 \/ a.diagnosis = <<>>
                THEN threw
                ELSE returned(validateClaimRequest(
                         [patientInfo |-> [id |-> String(a.patientInfo[1].id)],
                          providerInfo |-> [id |-> String(a.providerInfo[1].id)],
                          services |-> a.services[1],
                          diagnosis |-> a.diagnosis[1],
                          claimType |-> IF a.claimType = <<>> THEN "undefined"
                                        ELSE a.claimType[1]]))
         [] call.fn = "validateDiagnosisCode" ->
              returned(validateDiagnosisCode(String(call.code)))

ValidatorInit(calls) ==
    /\ validatorCall \in calls
    /\ validatorResult = <<>>

\* The validator is called with the argument and settles.
Validate ==
    /\ validatorCall # NoCall
    /\ validatorResult = <<>>
    /\ validatorResult' = <<Invoke(validatorCall)>>
    /\ UNCHANGED validatorCall
    /\ UNCHANGED <<gwVars, retryVars, routeVars, sessionVars, cacheVars, hookVars>>

(***************************************************************************)
(* The token cache of a gateway against the exchange's clock: the Express  *)
(* client keeps token and expiry in its fields, the Worker client in a KV  *)
(* entry with a time to live                                               *)
(***************************************************************************)
CacheMaxTime == 300000    \* the clock (ms) stops advancing here

CacheTickSteps == {10000}     \* amounts (ms) by which the clock advances

CacheLifetimes == {100, 200}  \* expires_in (s) the exchange may advertise

CacheVariants == {"express", "worker"}

\* The instant up to which the token received now is served from the cache.
\* Express: this.tokenExpiryTime = Date.now() + expires_in * 1000.
\* Worker: kv.put(..., { expirationTtl: Math.floor(expiresIn * 0.9) }), in seconds.
StoredExpiry(grant) ==
    IF variant = "express"
      THEN clock + grant.expiresIn * 1000
      ELSE clock + ((grant.expiresIn * 9) \div 10) * 1000

CacheInit(variants) ==
    /\ variant \in variants
    /\ clock = 0
    /\ cache = <<>>
    /\ granted = <<>>
    /\ cpc = "idle"
    /\ held = <<>>

\* An operation asks for the token. Express: ensureAuthenticated() finds
\* token and expiry set and Date.now() < tokenExpiryTime. Worker: kv.get()
\* returns the entry while its time to live has not run out. Otherwise the
\* POST /oauth/token is sent.
CacheLookup ==
    /\ cpc = "idle"
    /\ IF cache # <<>> /\ clock < cache[1].expiresAt
         THEN /\ cpc' = "use"
              /\ held' = <<[grant |-> cache[1].grant, fresh |-> FALSE]>>
         ELSE /\ cpc' = "requested"
              /\ held' = <<>>
    /\ UNCHANGED <<variant, clock, cache, granted>>
    /\ UNCHANGED <<gwVars, retryVars, routeVars, sessionVars, validatorVars, hookVars>>

\* The exchange issues a token: its lifetime of expires_in seconds starts.
ExchangeGrants(expiresIn) ==
    /\ cpc = "requested"
    /\ cpc' = "granted"
    /\ granted' = <<[issuedAt |-> clock, expiresIn |-> expiresIn]>>
    /\ UNCHANGED <<variant, clock, cache, held>>
    /\ UNCHANGED <<gwVars, retryVars, routeVars, sessionVars, validatorVars, hookVars>>

\* The exchange refuses, or the call fails: the operation throws.
ExchangeRefuses ==
    /\ cpc = "requested"
    /\ cpc' = "idle"
    /\ UNCHANGED <<variant, clock, cache, granted, held>>
    /\ UNCHANGED <<gwVars, retryVars, routeVars, sessionVars, validatorVars, hookVars>>

\* The authentication response reaches the gateway: the token is stored and
\* handed to the operation.
TokenReceived ==
    /\ cpc = "granted"
    /\ cache' = <<[grant |-> granted[1], expiresAt |-> StoredExpiry(granted[1])]>>
    /\ held' = <<[grant |-> granted[1], fresh |-> TRUE]>>
    /\ granted' = <<>>
    /\ cpc' = "use"
    /\ UNCHANGED <<variant, clock>>
    /\ UNCHANGED <<gwVars, retryVars, routeVars, sessionVars, validatorVars, hookVars>>

\* The operation sends its request to the exchange with the token it holds.
UseToken ==
    /\ cpc = "use"
    /\ cpc' = "idle"
    /\ held' = <<>>
    /\ UNCHANGED <<variant, clock, cache, granted>>
    /\ UNCHANGED <<gwVars, retryVars, routeVars, sessionVars, validatorVars, hookVars>>

\* Time passes, also while the authentication call is under way.
CacheTick(d) ==
    /\ cpc # "use"
    /\ clock + d <= CacheMaxTime
    /\ clock' = clock + d
    /\ UNCHANGED <<variant, cache, granted, cpc, held>>
    /\ UNCHANGED <<gwVars, retryVars, routeVars, sessionVars, validatorVars, hookVars>>

CacheNext ==
    \/ CacheLookup
    \/ \E e \in CacheLifetimes : ExchangeGrants(e)
    \/ ExchangeRefuses
    \/ TokenReceived
    \/ UseToken
    \/ \E d \in CacheTickSteps : CacheTick(d)

(***************************************************************************)
(* The hooks useNPHIESEligibility and useNPHIESClaims: the loading, error  *)
(* and result states around the calls started through them                 *)
(***************************************************************************)
MaxHookCalls == 3     \* calls started through the hooks in one behaviour

\* The functions each hook returns that call the API.
HookFunctions ==
    [useNPHIESEligibility |-> {"checkEligibility"},
     useNPHIESClaims |-> {"submitClaim", "getClaimStatus"}]

Hooks == DOMAIN HookFunctions

HookInit ==
    /\ loading = [h \in Hooks |-> FALSE]
    /\ hookError = [h \in Hooks |-> <<>>]
    /\ hookResult = [h \in Hooks |-> <<>>]
    /\ inFlight = [h \in Hooks |-> <<>>]
    /\ hookCalls = 0

\* A function of the hook is called: setLoading(true), setError(null), then
\* the API call is awaited.
HookCall(h, f) ==
    /\ hookCalls < MaxHookCalls
    /\ hookCalls' = hookCalls + 1
    /\ loading' = [loading EXCEPT ![h] = TRUE]
    /\ hookError' = [hookError EXCEPT ![h] = <<>>]
    /\ inFlight' = [inFlight EXCEPT ![h] = Append(@, f)]
    /\ UNCHANGED hookResult
    /\ UNCHANGED <<gwVars, retryVars, routeVars, sessionVars, validatorVars, cacheVars>>

HookSettlements == {"success", "businessFailure", "businessFailureNoText", "thrown"}

\* The i-th call in flight settles: the result or the error is set, and the
\* finally block runs setLoading(false).
HookSettle(h, i, kind) ==
    /\ i \in 1..Len(inFlight[h])
    /\ inFlight' = [inFlight EXCEPT ![h] = SubSeq(@, 1, i - 1) \o SubSeq(@, i + 1, Len(@))]
    /\ CASE kind = "success" ->
              /\ hookResult' = [hookResult EXCEPT ![h] = <<"data">>]
              /\ UNCHANGED hookError
         [] kind = "businessFailure" ->
              /\ hookError' = [hookError EXCEPT ![h] = <<"Patient not found">>]
              /\ UNCHANGED hookResult
         [] kind = "businessFailureNoText" ->
              /\ hookError' = [hookError EXCEPT ![h] = <<DefaultError(inFlight[h][i])>>]
              /\ UNCHANGED hookResult
         [] kind = "thrown" ->
              /\ hookError' = [hookError EXCEPT ![h] = <<"Network error">>]
              /\ UNCHANGED hookResult
    /\ loading' = [loading EXCEPT ![h] = FALSE]
    /\ UNCHANGED hookCalls
    /\ UNCHANGED <<gwVars, retryVars, routeVars, sessionVars, validatorVars, cacheVars>>

\* clearResult(): setResult(null), setError(null)
HookClearResult(h) ==
    /\ hookResult[h] # <<>> \/ hookError[h] # <<>>
    /\ hookResult' = [hookResult EXCEPT ![h] = <<>>]
    /\ hookError' = [hookError EXCEPT ![h] = <<>>]
    /\ UNCHANGED <<loading, inFlight, hookCalls>>
    /\ UNCHANGED <<gwVars, retryVars, routeVars, sessionVars, validatorVars, cacheVars>>

HookNext ==
    \/ \E h \in Hooks : \E f \in HookFunctions[h] : HookCall(h, f)
    \/ \E h \in Hooks, i \in 1..MaxHookCalls, kind \in HookSettlements : HookSettle(h, i, kind)
    \/ \E h \in Hooks : HookClearResult(h)

(***************************************************************************)
(* Specifications                                                          *)
(***************************************************************************)
\* Requests handled concurrently.
Init == GwInit /\ maxInFlight = Cardinality(Reqs) /\ RetryInit /\ RouteInit /\ SessionInit
        /\ ValidatorInit({NoCall}) /\ CacheInit({"express"}) /\ HookInit

Spec == Init /\ [][GwNext]_vars

\* Requests handled one after another.
InitSerial == GwInit /\ maxInFlight = 1 /\ RetryInit /\ RouteInit /\ SessionInit
        /\ ValidatorInit({NoCall}) /\ CacheInit({"express"}) /\ HookInit

SpecSerial == InitSerial /\ [][GwNext]_vars

\* One retryWithBackoff session; no gateway request is in progress.
InitRetry == GwInit /\ maxInFlight = 0 /\ RetryInit /\ RouteInit /\ SessionInit
        /\ ValidatorInit({NoCall}) /\ CacheInit({"express"}) /\ HookInit

SpecRetry == InitRetry /\ [][RetryNext]_vars

\* Every invocation of fn settles and every timer fires.
SpecRetryFair == SpecRetry /\ WF_vars(RetryNext)

\* One frontend operation (retried or not); no gateway request is in progress.
SpecClient == InitRetry /\ [][ClientNext]_vars

\* The session of one frontend client from its construction on; no gateway
\* request and no retry session is modelled with it.
InitSession == GwInit /\ maxInFlight = 0 /\ RetryInit /\ RouteInit /\ SessionConstructed
        /\ ValidatorInit({NoCall}) /\ CacheInit({"express"}) /\ HookInit

SpecSession == InitSession /\ [][SessionNext]_vars

\* Requests arriving at the protected routes, handled concurrently.
SpecRoutes == Init /\ [][RouteNext]_vars

\* Requests at the protected routes, one after another; every call to the
\* exchange ends and every handler runs on.
SpecRoutesFair ==
    InitSerial /\ [][RouteNext]_vars /\ \A r \in Reqs : WF_vars(HandlerStep(r))

\* One call of a Domain Validator, the argument drawn from ValidatorCalls.
InitValidator ==
    GwInit /\ maxInFlight = 0 /\ RetryInit /\ RouteInit /\ SessionInit
        /\ ValidatorInit(ValidatorCalls) /\ CacheInit({"express"}) /\ HookInit

SpecValidator == InitValidator /\ [][Validate]_vars

\* The token cache of either gateway, operations one after another.
InitTokenCache ==
    GwInit /\ maxInFlight = 0 /\ RetryInit /\ RouteInit /\ SessionInit
        /\ ValidatorInit({NoCall}) /\ CacheInit(CacheVariants) /\ HookInit

SpecTokenCache == InitTokenCache /\ [][CacheNext]_vars

\* Calls started through the two hooks, overlapping at will.
SpecHooks == InitRetry /\ [][HookNext]_vars

(***************************************************************************)
(* Token cache and gateway operations: properties                          *)
(***************************************************************************)
\* The cache holds a token whose stored expiry lies ahead of the clock.
CachedTokenValid ==
    /\ accessToken # <<>>
    /\ tokenExpiryTime # <<>>
    /\ now < tokenExpiryTime[1]

Starts(r) == pc[r] = "idle" /\ pc'[r] # "idle"

IssuedTokens == {issued[i].token : i \in 1..Len(issued)}

\* C1: with operations handled one after another, an operation that finds no
\* valid cached token (the first one, or the first one after expiry) issues
\* exactly one authentication call; an operation that finds a cached token not
\* yet expired issues none and sends that cached token upstream; no
\* authentication call is issued at any other moment.
C1_TokenCacheAuthCalls ==
    [][ /\ \A r \in Reqs : Starts(r) =>
              /\ authCount' = authCount + (IF CachedTokenValid THEN 0 ELSE 1)
              /\ authCalls'[r] = (IF CachedTokenValid THEN 0 ELSE 1)
        /\ (~ \E r \in Reqs : Starts(r)) =>
              /\ authCount' = authCount
              /\ \A r \in Reqs : pc'[r] # "idle" => authCalls'[r] = authCalls[r]
        /\ \A r \in Reqs : (upstreamCalls'[r] > upstreamCalls[r] /\ authCalls[r] = 0) =>
              /\ issued # <<>>
              /\ sentToken'[r] = <<issued[Len(issued)].token>>
              /\ sentToken'[r] = accessToken
      ]_vars

\* C1 witness: three operations, two authentication calls: the first operation
\* authenticated, one reused the cached token, and the one after expiry
\* authenticated once more and now sends the second token.
C1_Witness ==
    /\ maxInFlight = 1
    /\ opsStarted = 3
    /\ authCount = 2
    /\ Len(issued) = 2
    /\ issued[2].at >= issued[1].at + issued[1].expiresIn * 1000
    /\ \E r \in Reqs : pc[r] = "upstream" /\ sentToken[r] = <<2>>

C3_CacheHoldsOneResponse ==
    /\ \/ accessToken = <<>> /\ tokenExpiryTime = <<>>
       \/ \E i \in 1..Len(issued) :
             /\ accessToken = <<issued[i].token>>
             /\ tokenExpiryTime = <<issued[i].at + issued[i].expiresIn * 1000>>
    /\ ((\A r \in Reqs : pc[r] # "auth") /\ issued # <<>>) =>
          /\ accessToken = <<issued[Len(issued)].token>>
          /\ tokenExpiryTime =
                <<issued[Len(issued)].at + issued[Len(issued)].expiresIn * 1000>>

\* C3 witness: two requests refreshed concurrently (both authenticated, both
\* responses arrived, with different lifetimes) and no refresh is in flight.
C3_Witness ==
    /\ Len(issued) = 2
    /\ issued[1].expiresIn # issued[2].expiresIn
    /\ issued[1].at < issued[2].at
    /\ \A r \in Reqs : pc[r] = "call" /\ authCalls[r] = 1

\* C4: for each of the four operations, an upstream call is issued only once
\* the request's token acquisition has completed, and the bearer it carries
\* is a token returned by a successful authentication call.
C4_CallAfterTokenAcquired ==
    /\ [](\A r \in Reqs : upstreamCalls[r] > 0 =>
              /\ op[r] \in Operations
              /\ acquired[r]
              /\ sentToken[r] # <<>>
              /\ sentToken[r][1] \in IssuedTokens)
    /\ [][ \A r \in Reqs : upstreamCalls'[r] > upstreamCalls[r] =>
              /\ acquired[r]
              /\ pc[r] # "auth" ]_vars

\* C4 witness: two concurrent requests of different operations have both
\* sent their upstream call, one with a refreshed token and one with the
\* token it found cached.
C4_Witness ==
    /\ pc["r1"] = "upstream" /\ op["r1"] = "submitPreAuth" /\ authCalls["r1"] = 1
    /\ pc["r2"] = "upstream" /\ op["r2"] = "getClaimStatus" /\ authCalls["r2"] = 0
    /\ sentToken["r1"] = <<1>>
    /\ sentToken["r2"] = <<1>>

(***************************************************************************)
(* Retry utility: properties                                               *)
(***************************************************************************)
Settled == rpc \in {"resolved", "rejected"}

\* The step in which an invocation of fn fails.
FnFails == rpc = "running" /\ failures' = failures + 1

\* C5: when the operation fails k times (each failure retried) and then
\* succeeds, it has been invoked exactly k+1 times with k < maxAttempts, the
\* value of the last invocation is returned, k waits were made, and nothing
\* is invoked after the success.
C5_SuccessAfterRetries ==
    /\ [](rpc = "resolved" =>
            /\ invocations = failures + 1
            /\ failures < opts.maxAttempts
            /\ result = <<invocations>>
            /\ Len(waits) = failures
            /\ thrownError = <<>>)
    /\ [][ rpc = "resolved" =>
            /\ rpc' = "resolved"
            /\ invocations' = invocations
            /\ result' = result ]_vars

\* C5 witness: maxAttempts = 3, two failures, then the third invocation
\* succeeds and its value is returned.
C5_Witness ==
    /\ rpc = "resolved"
    /\ opts.maxAttempts = 3
    /\ failures = 2
    /\ invocations = 3
    /\ result = <<3>>

\* C6: when an invocation fails and shouldRetry answers false for its error,
\* the session rejects with that very error, without a wait and without
\* another invocation (a first-attempt failure: one invocation in total), and
\* a rejected session invokes nothing further.
C6_NonRetryablePropagates ==
    /\ [][ (FnFails /\ ~ShouldRetry(opts.shouldRetry, lastError'[1], attempt)) =>
            /\ rpc' = "rejected"
            /\ thrownError' = lastError'
            /\ lastError'[1].id = invocations
            /\ waits' = waits
            /\ invocations' = invocations
            /\ (attempt = 1 => (invocations' = 1 /\ waits' = <<>>)) ]_vars
    /\ [][ rpc = "rejected" =>
            /\ rpc' = "rejected"
            /\ invocations' = invocations
            /\ waits' = waits
            /\ thrownError' = thrownError ]_vars

\* C6 witness: the first invocation (of up to 3) failed with an error the
\* default predicate does not retry; the session rejected with it at once.
C6_Witness ==
    /\ rpc = "rejected"
    /\ opts.maxAttempts = 3
    /\ opts.shouldRetry = "default"
    /\ invocations = 1
    /\ waits = <<>>
    /\ thrownError # <<>>
    /\ thrownError = lastError
    /\ ~DefaultShouldRetry(lastError[1], 1)

\* C7: with maxAttempts >= 1 the session always settles; the operation is
\* invoked at least once and at most maxAttempts times, the attempt number
\* starts at 1 and counts the invocations, and a failure of the attempt
\* numbered maxAttempts is thrown without a wait or a retry, whatever
\* shouldRetry would answer.
C7_BoundedAttempts ==
    /\ []((opts.maxAttempts >= 1 /\ rpc # "idle") =>
            /\ attempt >= 1
            /\ invocations = attempt
            /\ invocations >= 1
            /\ invocations <= opts.maxAttempts)
    /\ [][ (opts.maxAttempts >= 1 /\ FnFails /\ attempt = opts.maxAttempts) =>
            /\ rpc' = "rejected"
            /\ thrownError' = lastError'
            /\ waits' = waits
            /\ invocations' = invocations ]_vars
    /\ ((rpc # "idle" /\ opts.maxAttempts >= 1) ~> Settled)

\* C7 witness: shouldRetry always answers true, and still the failure of
\* attempt 3 of 3 has been thrown after two waits.
C7_Witness ==
    /\ rpc = "rejected"
    /\ opts.shouldRetry = "always"
    /\ opts.maxAttempts = 3
    /\ attempt = 3
    /\ invocations = 3
    /\ Len(waits) = 2
    /\ thrownError = lastError
    /\ lastError[1].id = 3

\* min(initialDelay * backoffMultiplier^(n-1), maxDelay)
BaseDelay(n) ==
    Min(opts.initialDelay * Pow(opts.backoffMultiplier, n - 1), opts.maxDelay)

RECURSIVE SumSeq(_)
SumSeq(q) == IF q = <<>> THEN 0 ELSE q[1] + SumSeq(Tail(q))

\* C8: the n-th wait follows the failure of attempt n and lasts at least
\* min(initialDelay * backoffMultiplier^(n-1), maxDelay) and less than that
\* plus 1000 ms; that base never exceeds maxDelay; with the default delays,
\* two failures followed by a success have waited at least
\* initialDelay + initialDelay * backoffMultiplier.
C8_BackoffDelays ==
    /\ (rpc = "waiting" => Len(waits) = attempt)
    /\ (rpc \in {"running", "resolved", "rejected"} => Len(waits) = attempt - 1)
    /\ \A i \in 1..Len(waits) :
          /\ waits[i] >= BaseDelay(i)
          /\ waits[i] < BaseDelay(i) + 1000
          /\ BaseDelay(i) <= opts.maxDelay
    /\ ( /\ rpc = "resolved"
         /\ failures = 2
         /\ opts.initialDelay = DEFAULT_OPTIONS.initialDelay
         /\ opts.maxDelay = DEFAULT_OPTIONS.maxDelay
         /\ opts.backoffMultiplier = DEFAULT_OPTIONS.backoffMultiplier )
          => SumSeq(waits) >= opts.initialDelay + opts.initialDelay * opts.backoffMultiplier

\* C8 witness: default options, two failures then success, both waits at the
\* floor of their range (no jitter): 1000 ms and 2000 ms.
C8_Witness ==
    /\ rpc = "resolved"
    /\ failures = 2
    /\ opts = DEFAULT_OPTIONS
    /\ waits = <<1000, 2000>>

\* The error handleAPIError builds for a timeout.
TimeoutClassMessage == "Request timeout. The service is taking too long to respond."

\* C9: when a call of checkEligibility or submitClaim hits the 30 s timeout
\* of the axios instance, the predicate the operation passes judges the
\* error retryable, and the operation gives up only after 3 invocations,
\* throwing a timeout-class error.
C9_TimeoutRetriedToCap ==
    (caller \in RetriedOperations /\ lastError # <<>> /\ lastError[1].kind = "timeout") =>
        /\ isRetryableError(lastError[1])
        /\ (rpc = "rejected" =>
              /\ invocations = ClientRetryOptions.maxAttempts
              /\ surfaced = <<TimeoutClassMessage>>)

\* The messages of the model that contain ECONNREFUSED, ETIMEDOUT, ENOTFOUND
\* or network, in whatever case.
TransientMessages ==
    {Msg_ConnRefused, Msg_DnsFailure, Msg_NetworkError, Msg_SocketTimeout,
     Msg_LowerTimedOut, Msg_MixedNotFound, Msg_UpperNetwork}

C11_RetryAsymmetry ==
    [][ /\ (caller' \in RetriedOperations /\ rpc' # "idle") =>
              /\ invocations' \in 1..3
              /\ (invocations' > invocations /\ invocations >= 1) =>
                    /\ lastError # <<>>
                    /\ isRetryableError(lastError[1])
                    /\ failures = invocations
        /\ (caller' \in UnretriedOperations) =>
              /\ invocations' = 1
              /\ failures' <= 1 ]_vars

\* C11 witness: checkEligibility has sent three requests, each failed with a
\* retryable error, and has thrown.
C11_Witness ==
    /\ caller = "checkEligibility"
    /\ rpc = "rejected"
    /\ invocations = 3
    /\ failures = 3
    /\ isRetryableError(thrownError[1])

(***************************************************************************)
(* Protected routes: properties                                            *)
(***************************************************************************)
\* The request of handler r has been answered with this status.
Answered(r, status) == \E i \in 1..Len(response[r]) : response[r][i].status = status

\* The handler of r has made a network call for its current request.
NetworkCalled(r) == authCalls[r] > 0 \/ upstreamCalls[r] > 0

\* C12: on a protected route the body is validated before any network call:
\* a request answered 400 "Validation failed" has caused no authentication
\* call to the exchange and no upstream operation call, and a handler that
\* has made a network call for a route with a schema has parsed a body the
\* schema accepts.
C12_ValidationBeforeNetwork ==
    \A r \in Reqs :
        /\ (pc[r] # "idle" /\ bearer[r] = "valid" /\ op[r] # "getClaimStatus"
               /\ ~ExpressSchemaAccepts(op[r], body[r])) =>
              /\ response[r] = <<ValidationFailed>>
              /\ validated[r]
              /\ ~NetworkCalled(r)
              /\ sentToken[r] = <<>>
        /\ Answered(r, 400) => ~NetworkCalled(r)
        /\ (NetworkCalled(r) /\ op[r] # "getClaimStatus") =>
              /\ validated[r]
              /\ ExpressSchemaAccepts(op[r], body[r])

\* C12 witness: a request with a valid bearer and a body the schema rejects
\* has been answered 400.
C12_Witness ==
    \E r \in Reqs :
        /\ bearer[r] = "valid"
        /\ body[r] = "E_invalid"
        /\ response[r] = <<ValidationFailed>>
        /\ authCount = 0

\* The handler of r is past authenticateToken and the schema: its gateway
\* operation has been invoked.
OperationInvoked(r) == pc[r] \in {"auth", "call", "upstream", "done"} \/ outcome[r] # NoOutcome

\* C13: a gateway operation is invoked, and a request forwarded to the
\* exchange, only for a request that the operation's Domain Validator reports
\* isValid (eligibility: validateEligibilityRequest, claims:
\* validateClaimRequest).
C13_ForwardedRequestsAreValid ==
    \A r \in Reqs :
        (op[r] \in ValidatedOperations /\ (OperationInvoked(r) \/ upstreamCalls[r] > 0)) =>
            ValidatorAccepts(op[r], body[r])

\* C14: in both gateways a request that its Domain Validator accepts and that
\* carries a valid bearer is never answered 400; it is forwarded and, when the
\* exchange succeeds, answered with a success:true envelope. (Express: the
\* routes; Worker: what its schemas accept.)
C14_ValidRequestNeverRejected ==
    \A r \in Reqs :
        (pc[r] # "idle" /\ bearer[r] = "valid" /\ op[r] \in ValidatedOperations
           /\ ValidatorAccepts(op[r], body[r])) =>
            /\ ~Answered(r, 400)
            /\ OperationInvoked(r)
            /\ (pc[r] = "responded" /\ outcome[r].success) =>
                  response[r] = <<HttpResponse(200, "", "", Envelope(TRUE, "", ""))>>
            /\ WorkerSchemaAccepts(op[r], body[r])

C16_BusinessErrorEnvelope ==
    \A r \in Reqs :
        supplied[r] # <<>> =>
            /\ upstreamCalls[r] = 1
            /\ pc[r] \in {"done", "responded"}
            /\ outcome[r] =
                  Envelope(FALSE,
                           IF supplied[r][1].error # "" THEN supplied[r][1].error
                                                        ELSE DefaultError(op[r]),
                           IF supplied[r][1].code # "" THEN supplied[r][1].code
                                                       ELSE DefaultCode(op[r]))
            /\ pc[r] = "responded" => response[r] = <<HttpResponse(200, "", "", outcome[r])>>

\* C16 witness: the exchange rejected a claim with an error text and no
\* code; the envelope carries that text and the default code.
C16_Witness ==
    \E r \in Reqs :
        /\ op[r] = "submitClaim"
        /\ supplied[r] = <<[error |-> "Policy inactive", code |-> ""]>>
        /\ pc[r] = "responded"
        /\ upstreamCalls[r] = 1
        /\ response[r][1].envelope = Envelope(FALSE, "Policy inactive", "CLAIM_SUBMISSION_ERROR")

C18_InvalidBearerAnswered401 ==
    \A r \in Reqs :
        (pc[r] # "idle" /\ bearer[r] = "invalid") =>
            /\ pc[r] = "responded"
            /\ Len(response[r]) = 1
            /\ response[r][1].status = 401

\* The kinds of response a protected route sends.
CallerAuthRejection(resp) ==
    /\ resp.status \in {401, 403}
    /\ resp.error \in {"Access token required", "Invalid or expired token"}
    /\ resp.envelope = NoOutcome

GatewayEnvelope(resp) ==
    /\ resp.status = 200
    /\ resp.envelope.kind = "envelope"

ServerError(resp) ==
    /\ resp.status \in 500..599
    /\ resp.error # ""
    /\ resp.message # ""
    /\ resp.envelope = NoOutcome

ApiReceives(kind) ==
    /\ Len(received') = Len(received) + 1
    /\ received'[Len(received')] = [call |-> "api", kind |-> kind]

\* C19: whenever a response with status 401 is received on an API call, the
\* client sets token and user to null, removes both items from local storage
\* and fires 'nphies:auth-changed' with isAuthenticated=false and reason
\* 'unauthorized' followed by 'nphies:unauthorized'; a business failure (an
\* envelope with success=false) fires nothing and leaves token, user and the
\* storage unchanged.
C19_UnauthorizedClearsSession ==
    [][ /\ ApiReceives("status401") =>
              /\ sessionToken' = <<>>
              /\ sessionUser' = <<>>
              /\ \A k \in StorageKeys : localStorage'[k] = <<>>
              /\ dispatched' = dispatched
                     \o <<AuthChangedEvent(FALSE, <<>>, "unauthorized"), UnauthorizedEvent>>
        /\ ApiReceives("businessFailure") =>
              /\ UNCHANGED <<sessionToken, sessionUser, localStorage, dispatched>>
      ]_vars

\* C19 witness: a logged-in client has received a 401 on an API call; its
\* session is cleared and the last two events are auth-changed
\* (unauthorized) and nphies:unauthorized.
C19_Witness ==
    /\ Len(received) >= 2
    /\ received[Len(received) - 1] = [call |-> "login", kind |-> "success"]
    /\ received[Len(received)] = [call |-> "api", kind |-> "status401"]
    /\ sessionToken = <<>>
    /\ localStorage = EmptyStorage
    /\ Len(dispatched) = 4
    /\ dispatched[4] = UnauthorizedEvent

(***************************************************************************)
(* Domain Validators: properties                                           *)
(***************************************************************************)
\* The validator named fn has been called and has settled.
Called(fn) == validatorCall.fn = fn /\ validatorResult # <<>>

\* The texts, with their index tags, of the checks of the list that fail.
Failing(checks) ==
    LET fails(c) == c.fails
        failing == SelectSeq(checks, fails)
    IN [i \in 1..Len(failing) |-> [text |-> failing[i].text, index |-> failing[i].index]]

\* The texts and index tags of a returned errors list.
Reported(errors) ==
    [i \in 1..Len(errors) |-> [text |-> errors[i].text, index |-> errors[i].index]]

\* C21: validateEligibilityRequest runs its four checks whatever the earlier
\* ones found: the errors returned are the messages of the failing checks in
\* the order patientId, insuranceId, providerId, serviceDate, as many as there
\* are failing checks, and isValid is true exactly when the list is empty.
C21_EligibilityErrorsInOrder ==
    Called("validateEligibilityRequest") =>
        LET a == validatorCall.request
            out == validatorResult[1]
            checks ==
              << [fails |-> ~validatePatientId(String(a.patientId)), index |-> 0,
                  text |-> "Invalid patient ID format. Must be 10-digit Saudi National ID."],
                 [fails |-> ~validateInsuranceId(String(a.insuranceId)), index |-> 0,
                  text |-> "Invalid insurance ID format."],
                 [fails |-> ~validateProviderId(String(a.providerId)), index |-> 0,
                  text |-> "Invalid provider ID format. Must be 7-digit provider code."],
                 [fails |-> \/ a.serviceDate \in {<<>>, << <<>> >>}
                            \/ ~DateParses(a.serviceDate[1]), index |-> 0,
                  text |-> "Invalid or missing service date."] >>
        IN /\ out.kind = "returned"
           /\ Reported(out.value.errors) = Failing(checks)
           /\ Len(out.value.errors) = Cardinality({i \in 1..4 : checks[i].fails})
           /\ out.value.isValid <=> (out.value.errors = <<>>)

\* C21 witness: the request with a patientId too short, an insuranceId too
\* short, a providerId too long and a serviceDate that is no date has been
\* validated: four errors, isValid false.
C21_Witness ==
    /\ Called("validateEligibilityRequest")
    /\ validatorCall.request = [patientId |-> <<Str.shortId>>, insuranceId |-> <<Str.tooShort>>,
                                providerId |-> <<Str.eightDigits>>,
                                serviceDate |-> <<Str.notADate>>]
    /\ validatorResult[1].kind = "returned"
    /\ Len(validatorResult[1].value.errors) = 4
    /\ ~validatorResult[1].value.isValid

\* The claim of the call has the nested parts validateClaimRequest reads.
ClaimComplete ==
    /\ validatorCall.claim.patientInfo # <<>>
    /\ validatorCall.claim.providerInfo # <<>>
    /\ validatorCall.claim.services # <<>>
    /\ validatorCall.claim.diagnosis # <<>>

\* C22: validateClaimRequest reports every failure: one error for an invalid
\* patientInfo.id, one for an invalid providerInfo.id, then per services entry,
\* in order, one error for each of its failing checks (code, quantity <= 0,
\* unitPrice <= 0) tagged with the entry's index, then one per diagnosis entry
\* with an invalid code tagged with its index, then one for a claimType that
\* is none of the four; isValid is true exactly when nothing was reported; a
\* claim in which every one of these checks fails yields more than 5 errors.
C22_ClaimErrorsAccumulate ==
    (Called("validateClaimRequest") /\ ClaimComplete) =>
        LET a == validatorCall.claim
            out == validatorResult[1]
            services == a.services[1]
            diagnosis == a.diagnosis[1]
            serviceChecks ==
              [k \in 1..(3 * Len(services)) |->
                 LET entry == services[((k - 1) \div 3) + 1]
                     index == (k - 1) \div 3
                 IN CASE (k - 1) % 3 = 0 ->
                           [fails |-> ~validateServiceCode(entry.code), index |-> index,
                            text |-> "Invalid service code at index"]
                      [] (k - 1) % 3 = 1 ->
                           [fails |-> entry.quantity <= 0, index |-> index,
                            text |-> "Invalid quantity at service index"]
                      [] (k - 1) % 3 = 2 ->
                           [fails |-> entry.unitPrice <= 0, index |-> index,
                            text |-> "Invalid unit price at service index"]]
            diagnosisChecks ==
              [k \in 1..Len(diagnosis) |->
                 [fails |-> ~validateDiagnosisCode(diagnosis[k].code), index |-> k - 1,
                  text |-> "Invalid diagnosis code at index"]]
            checks ==
              << [fails |-> ~validatePatientId(String(a.patientInfo[1].id)), index |-> 0,
                  text |-> "Invalid patient ID in patient info."],
                 [fails |-> ~validateProviderId(String(a.providerInfo[1].id)), index |-> 0,
                  text |-> "Invalid provider ID in provider info."] >>
              \o serviceChecks \o diagnosisChecks
              \o << [fails |-> a.claimType \notin {<<t>> : t \in validClaimTypes}, index |-> 0,
                     text |-> "Invalid claim type. Must be one of: inpatient, outpatient, pharmacy, dental"] >>
        IN /\ out.kind = "returned"
           /\ Reported(out.value.errors) = Failing(checks)
           /\ out.value.isValid <=> (out.value.errors = <<>>)
           /\ (Len(services) > 0 /\ Len(diagnosis) > 0 /\ \A k \in 1..Len(checks) : checks[k].fails)
                 => Len(out.value.errors) > 5

\* C22 witness: a claim with an invalid patient id and provider id, two
\* services of which the second has an invalid code, quantity 0 and a
\* negative price, an invalid diagnosis code in second place and an invalid
\* claimType has been validated: seven errors, those of the service tagged
\* with index 1.
C22_Witness ==
    /\ Called("validateClaimRequest")
    /\ ClaimComplete
    /\ validatorResult[1].kind = "returned"
    /\ LET errors == validatorResult[1].value.errors IN
         /\ Len(errors) = 7
         /\ errors[1].text = "Invalid patient ID in patient info."
         /\ errors[3] = ValidationError("Invalid service code at index", 1, Str.lowerCode)
         /\ errors[4] = ValidationError("Invalid quantity at service index", 1, <<>>)
         /\ errors[6] = ValidationError("Invalid diagnosis code at index", 1, Str.word)
         /\ errors[7].text = "Invalid claim type. Must be one of: inpatient, outpatient, pharmacy, dental"

\* C23: the Domain Validators never throw: every call of
\* validateEligibilityRequest and of validateClaimRequest returns a result,
\* also for a request with properties or nested parts missing, and for such a
\* request the result has isValid = false and a non-empty errors list.
C23_ValidatorsNeverThrow ==
    (Called("validateEligibilityRequest") \/ Called("validateClaimRequest")) =>
        /\ validatorResult[1].kind = "returned"
        /\ LET partMissing ==
                 IF validatorCall.fn = "validateEligibilityRequest"
                   THEN \E f \in DOMAIN validatorCall.request : validatorCall.request[f] = <<>>
                   ELSE \/ \E f \in DOMAIN validatorCall.claim : validatorCall.claim[f] = <<>>
                        \/ validatorCall.claim.patientInfo[1].id = <<>>
                        \/ validatorCall.claim.providerInfo[1].id = <<>>
           IN partMissing =>
                /\ ~validatorResult[1].value.isValid
                /\ validatorResult[1].value.errors # <<>>

\* C24: validateDiagnosisCode(s) is true exactly when s is one uppercase
\* letter, two digits and, optionally, a dot followed by one or two digits;
\* it is false for a lowercase first letter, a missing first letter, two
\* leading letters, a second decimal group and the empty string.
C24_DiagnosisCodePattern ==
    Called("validateDiagnosisCode") =>
        LET s == validatorCall.code[1]
            digit(i) == s[i] \in Digits
            matches ==
              /\ Len(s) \in {3, 5, 6}
              /\ s[1] \in UpperLetters
              /\ digit(2)
              /\ digit(3)
              /\ Len(s) > 3 => (s[4] = "." /\ \A i \in 5..Len(s) : digit(i))
        IN /\ validatorResult[1].kind = "returned"
           /\ validatorResult[1].value <=> matches
           /\ s \in {<<"a", "0", "1">>, <<"1", "2", "3">>, <<"A", "B", "1">>,
                    <<"A", "1", ".", "2", ".", "3">>, <<>>} => ~validatorResult[1].value

\* C24 witness: a code with two decimals has been accepted.
C24_Witness ==
    /\ Called("validateDiagnosisCode")
    /\ validatorCall.code = << <<"C", "7", "8", ".", "1", "2">> >>
    /\ validatorResult[1] = [kind |-> "returned", value |-> TRUE]

(***************************************************************************)
(* Token cache against the exchange's clock: properties                    *)
(***************************************************************************)
\* C25: in both cache variants, a token taken from the cache and used
\* without a fresh authentication call has not passed the expiry instant the
\* exchange advertised for it, the instant the exchange issued it plus
\* expires_in, however long the authentication response took to arrive.
C25_CachedTokenNotExpired ==
    (cpc = "use" /\ ~held[1].fresh) =>
        clock <= held[1].grant.issuedAt + held[1].grant.expiresIn * 1000

(***************************************************************************)
(* Client session, hooks and retry edge cases: properties                  *)
(***************************************************************************)
\* C26: from the construction of the client on, through logins, logouts and
\* 401 responses, the token in memory is the item stored under
\* 'nphies_token' (both absent, or the same text), and isAuthenticated() is
\* true exactly when the token is not null.
C26_TokenMatchesStorage ==
    /\ sessionToken = localStorage["nphies_token"]
    /\ isAuthenticated(sessionToken) <=> (sessionToken # <<>>)

\* C26 witness: a client that logged in and then received a 401 on an API
\* call has logged in again: token and stored item are the new token.
C26_Witness ==
    /\ Len(received) = 3
    /\ received[1].kind = "success"
    /\ received[2] = [call |-> "api", kind |-> "status401"]
    /\ received[3] = [call |-> "login", kind |-> "success"]
    /\ sessionToken = <<"jwt2">>
    /\ localStorage["nphies_token"] = <<"jwt2">>

\* The events dispatched by the step.
NewEvents == SubSeq(dispatched', Len(dispatched) + 1, Len(dispatched'))

\* The step in which the client receives a response of this kind to a login.
LoginReceives(kind) ==
    /\ Len(received') = Len(received) + 1
    /\ received'[Len(received')] = [call |-> "login", kind |-> kind]

\* C27: every 'nphies:auth-changed' event that reports isAuthenticated = true
\* carries a user that is not null and is the user returned by the login
\* that produced the token: no event shows the new token with a missing or an
\* earlier user.
C27_AuthChangedCarriesUser ==
    [][\A i \in 1..Len(NewEvents) :
          (NewEvents[i].type = "nphies:auth-changed" /\ NewEvents[i].isAuthenticated) =>
              /\ NewEvents[i].user # <<>>
              /\ NewEvents[i].user = sessionUser'
      ]_vars

\* C28: a login answered 401 (wrong credentials) only makes login fail: no
\* event is dispatched and token, user and storage stay as they were; and
\* 'nphies:unauthorized' is dispatched only when an API call made with a
\* session token is answered 401.
C28_LoginRejectionKeepsSession ==
    [][ /\ LoginReceives("status401") =>
              UNCHANGED <<sessionToken, sessionUser, localStorage, dispatched>>
        /\ (\E i \in 1..Len(NewEvents) : NewEvents[i] = UnauthorizedEvent) =>
              (ApiReceives("status401") /\ sessionToken # <<>>)
      ]_vars

\* C29: in each hook, under any interleaving of overlapping calls, loading is
\* true while at least one call started through the hook is in flight; it is
\* false only once the last of them has settled.
C29_LoadingWhileInFlight ==
    \A h \in Hooks : inFlight[h] # <<>> => loading[h]

\* C30: whatever maxAttempts is (0 and negative values too), a settled
\* retryWithBackoff session has invoked fn at least once, and a rejected one
\* rejects with the error thrown by the latest invocation of fn, never with
\* undefined.
C30_RejectsWithLastError ==
    Settled =>
        /\ invocations >= 1
        /\ rpc = "rejected" =>
              /\ thrownError # <<>>
              /\ thrownError[1].id = invocations

====
